---- MODULE Spec2Model ----
(***************************************************************************)
(* PowerTrader_AI: the trading control loop of pt_trader.py                *)
(* (CryptoAPITrading.manage_trades and the helpers it calls) and the pure  *)
(* decision functions it uses.                                             *)
(*                                                                         *)
(* Numbers.  Prices and money are integers.  Percentages are kept in       *)
(* tenths of a percent (5.0 % = 50, -2.5 % = -25), so a trailing line,     *)
(* which the code computes as price * (1 + pct/100), is stored multiplied  *)
(* by Milli = 1000: every comparison of the code is then an exact integer  *)
(* comparison.  Quantities are counted in lots; an entry order fills one   *)
(* lot.  Time is in seconds.                                               *)
(*                                                                         *)
(* The exchange is the environment: each tick it answers the price         *)
(* lookups (a quote, a 0/0 quote, or nothing), reports a buying power, and *)
(* fills or refuses each order.  Bid and ask are equal.  Failures of       *)
(* get_account / get_holdings / get_orders, exceptions, the paper-test     *)
(* harness and the hot reload of the settings are left out.                *)
(***************************************************************************)
EXTENDS Integers, Sequences, FiniteSets, TLC

\* ------------------------------------------------------------------ bounds
MaxTicks == 3
MaxLots == 27
MaxLen == 3
MaxQty == 6
MaxOrders == 3
MaxWrites == 3
Chunks == 2
MaxRetries == 1
MaxStage == 8
MaxSignal == 9
MaxHistory == 4
MaxLookups == 3
MaxTrades == 3
MaxHarnessTicks == 4
MaxSeedSteps == 4
MaxHeld == 3

\* ------------------------------------------------------- program constants
pm_start_pct_no_dca == 50
pm_start_pct_with_dca == 25
trailing_gap_pct == 5
max_dca_buys_per_24h == 2
dca_window_seconds == 86400
dca_levels == <<-25, -50, -100, -200, -300, -400, -500>>
Milli == 1000

\* ------------------------------------------------------------ input sets
\* crypto_symbols: the configured coin list, in iteration order.
crypto_symbols == <<"BTC", "ETH">>
Assets == {crypto_symbols[i] : i \in 1..Len(crypto_symbols)}
\* what one best_bid_ask lookup can answer (0/0: a response with no price)
QuotePrices(a) == IF a = "BTC" THEN {0, 900, 1395, 1400} ELSE {1262}
Quotes(a) == {[ask |-> p, bid |-> p] : p \in QuotePrices(a)}
NoQuote == [ask |-> -1, bid |-> -1]
\* the coins whose lookup can fail
LookupFails == {"BTC"}
\* buying power reported by get_account
BuyingPowers == {20000}
\* seconds between two ticks
TimeSteps == {28800}
\* neural dca_init read from long_dca_signal.txt
LongLevels == {0, 3, 7}
\* what _get_pine_signal can return for a held asset with PINE_SIGNAL_USE_EXIT
PineExitActions == {"", "sell"}

Max(a, b) == IF a >= b THEN a ELSE b

RECURSIVE SumSeq(_)
SumSeq(s) == IF s = <<>> THEN 0 ELSE Head(s) + SumSeq(Tail(s))

\* ----------------------------------------------------- trailing PM engine
NoTrail == [present |-> FALSE, active |-> FALSE, line |-> 0, peak |-> 0, was_above |-> FALSE]

BasePmLineDcaOnly(avg_cost_basis, triggered_levels) ==
    avg_cost_basis * (Milli + pm_start_pct_with_dca)

\* base_pm_line (times Milli)
BasePmLine(avg_cost_basis, triggered_levels) ==
    avg_cost_basis * (Milli + (IF triggered_levels = 0 THEN pm_start_pct_no_dca
                                                      ELSE pm_start_pct_with_dca))

\* state = self.trailing_pm.get(symbol); create it, or re-pin its line
TrailPin(state, base_pm_line) ==
    IF ~state.present
    THEN [present |-> TRUE, active |-> FALSE, line |-> base_pm_line, peak |-> 0, was_above |-> FALSE]
    ELSE IF ~state.active THEN [state EXCEPT !.line = base_pm_line]
    ELSE IF state.line < base_pm_line THEN [state EXCEPT !.line = base_pm_line]
    ELSE state

\* above_now = current_sell_price >= state["line"]
AboveNow(state, bid) == bid * Milli >= state.line

TrailArmAlways(state, bid) ==
    IF ~state.active THEN [state EXCEPT !.active = TRUE, !.peak = bid] ELSE state

\* activate trailing once the price is first above the base PM line
TrailArm(state, bid) ==
    IF (~state.active) /\ AboveNow(state, bid)
    THEN [state EXCEPT !.active = TRUE, !.peak = bid]
    ELSE state

TrailAdvanceDrift(state, base_pm_line, bid) ==
    IF state.active
    THEN [state EXCEPT !.peak = bid, !.line = Max(bid * (Milli - trailing_gap_pct), base_pm_line)]
    ELSE state

\* if active: update the peak and move the trailing line up behind it
TrailAdvance(state, base_pm_line, bid) ==
    IF state.active
    THEN LET peak == Max(state.peak, bid)
             new_line == Max(peak * (Milli - trailing_gap_pct), base_pm_line)
         IN  [state EXCEPT !.peak = peak, !.line = Max(state.line, new_line)]
    ELSE state

TrailCrossAbove(state, bid) == state.active /\ state.was_above

\* forced sell on cross from ABOVE -> BELOW the trailing line
TrailCross(state, bid) ==
    state.active /\ state.was_above /\ (bid * Milli < state.line)

\* ------------------------------------------------------------ DCA engine
DcaKeptOpenWindow(ts_list, last_sell, now_ts) ==
    SelectSeq(ts_list, LAMBDA t : (t > last_sell) /\ (t > now_ts - dca_window_seconds))

\* the list _dca_window_count keeps (and stores back): t > last_sell and t >= cutoff
DcaKept(ts_list, last_sell, now_ts) ==
    SelectSeq(ts_list, LAMBDA t : (t > last_sell) /\ (t >= now_ts - dca_window_seconds))

\* _dca_window_count's return value
DcaWindowCount(ts_list, last_sell, now_ts) == Len(DcaKept(ts_list, last_sell, now_ts))

\* hard_level for a stage: the last level repeats after the list ends
HardLevel(stage) ==
    IF stage < Len(dca_levels) THEN dca_levels[stage + 1] ELSE dca_levels[Len(dca_levels)]

\* gain_loss_percentage_buy <= hard_level  (0 when avg_cost_basis is 0)
HardHit(ask, avg_cost_basis, stage) ==
    IF avg_cost_basis > 0
    THEN (ask - avg_cost_basis) * Milli <= HardLevel(stage) * avg_cost_basis
    ELSE 0 <= HardLevel(stage)

NeuralHitAnyStage(ask, avg_cost_basis, stage, neural_level_now) ==
    /\ avg_cost_basis > 0 /\ ask < avg_cost_basis
    /\ neural_level_now >= stage + 4

\* neural trigger, first 4 stages only: pnl < 0 and level >= stage + 4
NeuralHit(ask, avg_cost_basis, stage, neural_level_now) ==
    /\ stage < 4
    /\ avg_cost_basis > 0 /\ ask < avg_cost_basis
    /\ neural_level_now >= stage + 4

\* recent_dca >= max_dca_buys_per_24h: the DCA is skipped
DcaLimitReached(recent_dca) == recent_dca >= max_dca_buys_per_24h

\* ------------------------------------------------------- position tracker
\* calculate_cost_basis, inner loops: buys newest first, until the held
\* quantity is matched; returns total_cost
RECURSIVE CostBackfill(_, _)
CostBackfill(buys_newest_first, remaining_quantity) ==
    IF buys_newest_first = <<>> \/ remaining_quantity <= 0 THEN 0
    ELSE LET order == Head(buys_newest_first)
         IN  IF order.quantity > remaining_quantity
             THEN remaining_quantity * order.price
             ELSE order.quantity * order.price
                  + CostBackfill(Tail(buys_newest_first), remaining_quantity - order.quantity)

Reverse(s) == [i \in 1..Len(s) |-> s[Len(s) + 1 - i]]

AssetCostBasisOldestFirst(buys_oldest_first, current_quantity) ==
    IF current_quantity > 0
    THEN CostBackfill(buys_oldest_first, current_quantity) \div current_quantity
    ELSE 0

\* cost_basis[asset_code] = total_cost / current quantity (0.0 when nothing is held)
AssetCostBasis(buys_oldest_first, current_quantity) ==
    IF current_quantity > 0
    THEN CostBackfill(Reverse(buys_oldest_first), current_quantity) \div current_quantity
    ELSE 0

\* list(range(triggered_levels_count))
StageRange(n) == [i \in 1..n |-> i - 1]

\* ------------------------------------------------------------- variables
VARIABLES
    now,                \* time.time()
    ticks,              \* number of manage_trades calls started
    pc,                 \* position in manage_trades: idle, held, entry
    idx,                \* index of the running loop
    broker_qty,         \* the exchange: held lots per asset
    broker_buys,        \* the exchange: filled buys since the last filled sell
    cost_basis,         \* self.cost_basis (0 = no entry)
    dca_levels_triggered,
    trailing_pm,
    dca_buy_ts,         \* self._dca_buy_ts
    dca_last_sell_ts,   \* self._dca_last_sell_ts (0 = no entry)
    last_good_bid_ask,  \* self._last_good_bid_ask
    last_good_account_snapshot,
    held_iter,          \* the holdings list the held-asset loop iterates
    holdings,           \* the local name holdings (latest get_holdings)
    prices,             \* current_buy_prices / current_sell_prices; NoQuote = not valid
    buying_power,
    total_account_value,
    snapshot_ok,
    trading_pairs,      \* get_trading_pairs() is non-empty
    trades_made,
    status_write,       \* what the running tick wrote to status_write.json (NoWrite: not yet)
    tick_log,           \* what the running tick has evaluated and ordered so far
    trade_dca,          \* per asset: times of the DCA buys filled in the open position
    prev_complete,      \* total value of the latest tick whose held assets all had prices
    gate,               \* one evaluation of the entry gate (SpecGate)
    window,             \* one evaluation of _dca_window_count (SpecWindow)
    order,             \* one call of the HMAC driver's create_order (SpecOrder)
    paper,             \* the PaperBroker: balance, holdings, order history (SpecPaper)
    bpaper,            \* the Binance paper client: balances and orders (SpecPaper)
    disk,              \* a directory written through _atomic_write_json (SpecDisk)
    basis,             \* one evaluation of calculate_cost_basis on a full order history (SpecBasis)
    norm,              \* one evaluation of _normalize_symbol (SpecNorm)
    sig,               \* one signed request of the HMAC driver (SpecSign)
    port,              \* one call of a Broker Port method (SpecPort)
    request,               \* one call of the HMAC driver's _request (SpecRequest)
    repair,            \* one place_buy_order call on the Ed25519 path (SpecRepair)
    dca_init,          \* one run of initialize_dca_levels on a full order history (SpecLevels)
    trigger,           \* one evaluation of the DCA trigger (SpecTrigger)
    feed,              \* get_price of one driver for one symbol, call after call (SpecPrice)
    pnl,               \* the P&L ledger and the trade history of one run (SpecLedger)
    pine_eval,         \* one held-loop and one entry-loop look at a Pine signal (SpecPine)
    paper_test,        \* the paper-test harness for its target asset, tick after tick (SpecHarness)
    seed_run,          \* one asset's trade history and in-memory DCA window, step by step (SpecSeed)
    funds              \* the buying power and the DCA buys of one tick's held loop (SpecFunds)

vars == <<now, ticks, pc, idx, broker_qty, broker_buys, cost_basis, dca_levels_triggered,
          trailing_pm, dca_buy_ts, dca_last_sell_ts, last_good_bid_ask,
          last_good_account_snapshot, held_iter, holdings, prices, buying_power,
          total_account_value, snapshot_ok, trading_pairs, trades_made, status_write,
          tick_log, trade_dca, prev_complete, gate, window, order, paper, bpaper, disk,
          basis, norm, sig, port, request, repair, dca_init, trigger, feed, pnl, pine_eval, paper_test, seed_run, funds>>

traderVars == <<now, ticks, pc, idx, broker_qty, broker_buys, cost_basis, dca_levels_triggered,
                trailing_pm, dca_buy_ts, dca_last_sell_ts, last_good_bid_ask,
                last_good_account_snapshot, held_iter, holdings, prices, buying_power,
                total_account_value, snapshot_ok, trading_pairs, trades_made, status_write,
                tick_log, trade_dca, prev_complete>>
brokerVars == <<broker_qty, broker_buys>>
coreVars == <<cost_basis, dca_levels_triggered, trailing_pm, dca_buy_ts, dca_last_sell_ts>>
localVars == <<held_iter, prices, buying_power, total_account_value, snapshot_ok, trading_pairs>>
\* the variables of the specifications that look at one component on its own
pureVars == <<gate, window, order, paper, bpaper, disk, basis, norm, sig, port, request, repair,
              dca_init, trigger, feed, pnl, pine_eval, paper_test, seed_run, funds>>

NoSnapshot == [total_account_value |-> -1, buying_power |-> -1]
NoGate == [done |-> FALSE]
NoWindow == [done |-> FALSE]
\* a component that has not been run
NotRun == [done |-> FALSE]

\* PaperBroker._load_state() without a state file: the fresh state, for the one
\* coin the paper specification trades ("trades" gets the same appends as "orders")
initial_balance == 16
NoHolding == [held |-> FALSE, quantity |-> 0, avg_cost |-> [num |-> 0, den |-> 1]]
PaperStart == [balance |-> initial_balance, holding |-> NoHolding, orders |-> <<>>,
               call |-> NotRun]

\* the JSON documents kept on disk: a file is absent (NoFile) or holds the first
\* "chunks" pieces of the document of some version; Chunks pieces are all of it
NoFile == [version |-> 0, chunks |-> 0]
Targets == {"pnl_ledger.json", "trader_status.json", "paper_trading_state.json"}
TmpPathSame(path) == path
TmpPath(path) == path \o ".tmp"
DiskStart == [files |-> [f \in Targets \cup {TmpPath(t) : t \in Targets} |-> NoFile],
              step |-> "idle", path |-> "", doc |-> 0, prev |-> NoFile, writes |-> 0]

\* BinancePaperExchangeClient.__init__: free balances in thousandths of a unit
\* (quote, and base of the one symbol traded), number of orders recorded
starting_balance == 40
BPaperStart == [quote |-> starting_balance * Milli, base |-> 0, orders |-> 0, call |-> NotRun]

\* nothing evaluated or ordered yet in the single-component specifications
\* BinanceExchangeClient(max_retries=4)
max_retries == 4
\* _request before the first pass of its loop; log is what each pass sent and got
ReqStart == [attempt |-> 0, resynced |-> FALSE, log |-> <<>>, syncs |-> 0, outcome |-> "running"]

\* a driver before its first get_price: nothing cached (seen: the latest positive
\* pair any lookup answered so far, kept for the properties only)
FeedStart == [provider |-> "", cache |-> NoQuote, before |-> NoQuote, seen |-> NoQuote,
              response |-> NoQuote, returned |-> NoQuote, calls |-> 0]

\* _load_pnl_ledger() with a ledger file holding 10, and an empty trade history
PnlStart == [total_realized_profit_usd |-> 10, history |-> <<>>, saves |-> 0]

\* _paper_test_state of the target before the first tick, nothing held at the
\* paper exchange (buy_ts -1: None; log: the orders that went through)
HarnessStart == [stage |-> "idle", buy_ts |-> -1, dca_done |-> FALSE, total_quantity |-> 0,
                 clock |-> 0, calls |-> 0, dca_seconds |-> 0, hold_seconds |-> 0,
                 log |-> <<>>]

\* a trader whose trade_history.jsonl is still empty, nothing held; clock 0 is
\* ten windows after the epoch
SeedStart == [clock |-> 0, calls |-> 0, held |-> FALSE, history |-> <<>>,
              dca_buy_ts |-> <<>>, dca_last_sell_ts |-> 0]

\* before manage_trades has read the account
FundsStart == [pc |-> "idle", buying_power |-> 0, idx |-> 0, placed |-> <<>>]

PureInit ==
    /\ gate = NoGate
    /\ window = NoWindow
    /\ order = NotRun
    /\ paper = PaperStart
    /\ bpaper = BPaperStart
    /\ disk = DiskStart
    /\ basis = NotRun
    /\ norm = NotRun
    /\ sig = NotRun
    /\ port = NotRun
    /\ request = ReqStart
    /\ repair = NotRun
    /\ dca_init = NotRun
    /\ trigger = NotRun
    /\ feed = FeedStart
    /\ pnl = PnlStart
    /\ pine_eval = NotRun
    /\ paper_test = HarnessStart
    /\ seed_run = SeedStart
    /\ funds = FundsStart
NoWrite == [written |-> FALSE, total_account_value |-> -1]

Usable(q) == q.ask > 0 /\ q.bid > 0

HeldSeq(qty) == SelectSeq(crypto_symbols, LAMBDA a : qty[a] > 0)

\* calculate_cost_basis(): an entry per held asset; {} when nothing is held
CalculateCostBasis(qty, buys) ==
    [a \in Assets |-> IF qty[a] > 0 THEN AssetCostBasis(buys[a], qty[a]) ELSE 0]

\* initialize_dca_levels(): stages = buys of the current trade after the first
InitializeDcaLevels(old, qty, buys) ==
    [a \in Assets |->
        IF qty[a] > 0 /\ buys[a] # <<>> THEN StageRange(Len(buys[a]) - 1) ELSE old[a]]

\* time.time() when the process starts
Start == 10 * dca_window_seconds

\* The positions a process can find at start-up, with the DCA buys the trade
\* history file holds for them: nothing; one entry lot; an entry and two DCA
\* buys made in the last hours.
NoPosition == [buys |-> <<>>, dca_ts |-> <<>>]
EntryPosition == [buys |-> <<[quantity |-> 1, price |-> 1200]>>, dca_ts |-> <<>>]
DcaPosition ==
    [buys |-> <<[quantity |-> 1, price |-> 1200], [quantity |-> 2, price |-> 900],
                [quantity |-> 6, price |-> 900]>>,
     dca_ts |-> <<Start - 7200, Start - 3600>>]
StartPositions(a) ==
    IF a = "BTC" THEN {NoPosition, EntryPosition, DcaPosition} ELSE {NoPosition, EntryPosition}

BoughtQuantity(buys) == SumSeq([i \in 1..Len(buys) |-> buys[i].quantity])

\* CryptoAPITrading.__init__: calculate_cost_basis, initialize_dca_levels,
\* _seed_dca_window_from_history; everything else starts empty
TraderInit(positions) ==
    /\ now = Start
    /\ ticks = 0
    /\ pc = "idle"
    /\ idx = 0
    /\ broker_buys = [a \in Assets |-> positions[a].buys]
    /\ broker_qty = [a \in Assets |-> BoughtQuantity(positions[a].buys)]
    /\ cost_basis = CalculateCostBasis(broker_qty, broker_buys)
    /\ dca_levels_triggered = InitializeDcaLevels([a \in Assets |-> <<>>], broker_qty, broker_buys)
    /\ trailing_pm = [a \in Assets |-> NoTrail]
    /\ dca_buy_ts = [a \in Assets |-> DcaKept(positions[a].dca_ts, 0, Start)]
    /\ dca_last_sell_ts = [a \in Assets |-> 0]
    /\ last_good_bid_ask = [a \in Assets |-> NoQuote]
    /\ last_good_account_snapshot = NoSnapshot
    /\ held_iter = <<>>
    /\ holdings = [a \in Assets |-> 0]
    /\ prices = [a \in Assets |-> NoQuote]
    /\ buying_power = 0
    /\ total_account_value = 0
    /\ snapshot_ok = TRUE
    /\ trading_pairs = TRUE
    /\ trades_made = FALSE
    /\ status_write = NoWrite
    /\ tick_log = <<>>
    /\ trade_dca = [a \in Assets |-> positions[a].dca_ts]
    /\ prev_complete = -1

Init ==
    /\ \E positions \in [Assets -> UNION {StartPositions(a) : a \in Assets}] :
        /\ \A a \in Assets : positions[a] \in StartPositions(a)
        /\ TraderInit(positions)
    /\ PureInit

\* ----------------------------------------------------- strategy evaluator
\* Scores are kept in fourteenths (1.0 = 14, 0.5 = 7, long_level/7 = 2 * long_level).
\* A candle series is abstracted to what the indicator library reports on it:
\* enough (at least 30 closes), rsi_low (RSI(14) < 30), momentum_up
\* (momentum > 0), adx_strong (ADX > 20) and atr_value (ATR is not None).
strategy_super_threshold == 6
ScoreOne == 14
Indicators == {"rsi", "momentum", "adx", "atr"}
SeriesFacts == [enough : BOOLEAN, rsi_low : BOOLEAN, momentum_up : BOOLEAN,
                adx_strong : BOOLEAN, atr_value : BOOLEAN]
\* the series of a coin with no candles
NoSeries == [enough |-> FALSE, rsi_low |-> FALSE, momentum_up |-> FALSE,
             adx_strong |-> FALSE, atr_value |-> FALSE]
Strategies == [mode : {"selector", "super"}, indicators : SUBSET Indicators, replace_neural : BOOLEAN]
\* _STRATEGY_DEFAULT
StrategyDefault == [mode |-> "selector", indicators |-> {}, replace_neural |-> FALSE]

\* _indicator_condition_score: (ok, score)
IndicatorConditionScore(name, series) ==
    CASE name = "rsi" -> [ok |-> series.rsi_low, score |-> IF series.rsi_low THEN ScoreOne ELSE 0]
      [] name = "momentum" -> [ok |-> series.momentum_up, score |-> IF series.momentum_up THEN ScoreOne ELSE 0]
      [] name = "adx" -> [ok |-> series.adx_strong, score |-> IF series.adx_strong THEN ScoreOne ELSE 0]
      [] name = "atr" -> [ok |-> TRUE, score |-> IF series.atr_value THEN ScoreOne \div 2 ELSE 0]
      [] OTHER -> [ok |-> FALSE, score |-> 0]

RECURSIVE SumScores(_, _)
SumScores(names, series) ==
    IF names = {} THEN 0
    ELSE LET n == CHOOSE x \in names : TRUE
         IN  IndicatorConditionScore(n, series).score + SumScores(names \ {n}, series)

NeuralOkLongOnly(long_level, short_level) == long_level >= 3

\* neural_ok
NeuralOk(long_level, short_level) == (long_level >= 3) /\ (short_level = 0)

\* neural_score, in fourteenths
NeuralScore(long_level, short_level) ==
    IF short_level = 0
    THEN 2 * (IF long_level < 0 THEN 0 ELSE IF long_level > 7 THEN 7 ELSE long_level)
    ELSE 0

SelectorAllowsNeuralAlways(replace_neural, neural_ok, indicators_ok) ==
    neural_ok /\ indicators_ok

\* selector mode: the conjunction alone with replace_neural, else neural_ok and it
SelectorAllows(replace_neural, neural_ok, indicators_ok) ==
    IF replace_neural THEN indicators_ok ELSE neural_ok /\ indicators_ok

SuperAllowsStrict(sum, count) == sum * 10 > strategy_super_threshold * ScoreOne * count

\* score >= strategy_super_threshold, score = sum / count
SuperAllows(sum, count) == sum * 10 >= strategy_super_threshold * ScoreOne * count

\* _strategy_should_enter: (allowed, score = num / den fourteenths)
StrategyShouldEnter(cfg, long_level, short_level, series) ==
    LET neural_ok == NeuralOk(long_level, short_level)
        neural_score == NeuralScore(long_level, short_level)
        baseline == [allowed |-> neural_ok, num |-> neural_score, den |-> 1]
        refuse == [allowed |-> FALSE, num |-> 0, den |-> 1]
        selected == cfg.indicators
        indicators_ok == \A n \in selected : IndicatorConditionScore(n, series).ok
        sum == SumScores(selected, series) + (IF cfg.replace_neural THEN 0 ELSE neural_score)
        count == Cardinality(selected) + (IF cfg.replace_neural THEN 0 ELSE 1)
    IN  IF selected = {} /\ ~cfg.replace_neural THEN baseline
        ELSE IF selected = {} /\ cfg.replace_neural THEN refuse
        ELSE IF ~series.enough THEN (IF cfg.replace_neural THEN refuse ELSE baseline)
        ELSE IF cfg.mode = "selector"
             THEN [allowed |-> SelectorAllows(cfg.replace_neural, neural_ok, indicators_ok),
                   num |-> IF cfg.replace_neural
                           THEN (IF indicators_ok THEN ScoreOne ELSE 0)
                           ELSE neural_score,
                   den |-> 1]
        ELSE IF count = 0 THEN baseline
        ELSE [allowed |-> SuperAllows(sum, count), num |-> sum, den |-> count]

\* the Pine part of the entry gate: TRUE when the coin is skipped
PineBlocksEntry(pine_mode, pine_action) ==
    \/ pine_mode = "replace" /\ pine_action # "buy"
    \/ pine_mode = "filter" /\ pine_action # "" /\ pine_action # "buy"

\* the entry gate of the new-entry loop: TRUE when the buy is placed
EntryGate(pine_mode, pine_action, cfg, buy_count, sell_count, series) ==
    LET use_strategy == cfg.indicators # {} \/ cfg.replace_neural \/ cfg.mode = "super"
    IN  /\ ~PineBlocksEntry(pine_mode, pine_action)
        /\ IF use_strategy
           THEN StrategyShouldEnter(cfg, buy_count, sell_count, series).allowed
           ELSE buy_count >= 3 /\ sell_count = 0

\* ------------------------------------------------------- the control loop
\* get_price for one symbol: the answer, else the cached pair if both are positive
PriceOrCachedAny(response, cached) ==
    IF response # NoQuote THEN response ELSE cached

PriceOrCached(response, cached) ==
    IF response # NoQuote THEN response
    ELSE IF cached # NoQuote /\ cached.ask > 0 /\ cached.bid > 0 THEN cached
    ELSE NoQuote

HoldingsSellValue(qty, px) ==
    SumSeq([i \in 1..Len(crypto_symbols) |->
        LET a == crypto_symbols[i]
        IN  IF qty[a] > 0 /\ Usable(px[a]) THEN qty[a] * px[a].bid ELSE 0])

\* every held asset has a usable bid and ask
AllHeldPriced(qty, px) == \A a \in Assets : qty[a] > 0 => Usable(px[a])

SnapshotNoFallback(ok, computed, last) == computed

\* the account figures the tick goes on with: the last good snapshot when this
\* tick is incomplete (or worthless) and one exists
SnapshotOrLast(ok, computed, last) ==
    IF ((~ok) \/ computed.total_account_value <= 0) /\ last # NoSnapshot
    THEN last
    ELSE computed

\* the answers of one round of price lookups (NoQuote: the lookup failed)
Responses ==
    {r \in [Assets -> UNION {Quotes(a) : a \in Assets} \cup {NoQuote}] :
        \A a \in Assets : r[a] \in Quotes(a) \cup (IF a \in LookupFails THEN {NoQuote} ELSE {})}

\* manage_trades up to the held-asset loop
TickBegin ==
    /\ pc = "idle"
    /\ ticks < MaxTicks
    /\ \E dt \in TimeSteps, bp \in BuyingPowers, pairs \in BOOLEAN,
          response \in Responses :
        LET px == [a \in Assets |-> PriceOrCached(response[a], last_good_bid_ask[a])]
            ok == AllHeldPriced(broker_qty, px)
            computed == [total_account_value |-> bp + HoldingsSellValue(broker_qty, px),
                         buying_power |-> bp]
            used == SnapshotOrLast(ok, computed, last_good_account_snapshot)
        IN  /\ now' = now + dt
            /\ ticks' = ticks + 1
            /\ trading_pairs' = pairs
            /\ holdings' = broker_qty
            /\ held_iter' = [i \in 1..Len(HeldSeq(broker_qty)) |->
                                [asset_code |-> HeldSeq(broker_qty)[i],
                                 total_quantity |-> broker_qty[HeldSeq(broker_qty)[i]]]]
            /\ last_good_bid_ask' = [a \in Assets |->
                                        IF response[a] # NoQuote THEN response[a]
                                        ELSE last_good_bid_ask[a]]
            /\ prices' = px
            /\ snapshot_ok' = ok
            /\ total_account_value' = used.total_account_value
            /\ buying_power' = used.buying_power
            /\ last_good_account_snapshot' =
                   IF ok /\ computed.total_account_value > 0 THEN computed
                   ELSE last_good_account_snapshot
            /\ prev_complete' = IF ok THEN computed.total_account_value ELSE prev_complete
    /\ trades_made' = FALSE
    /\ tick_log' = <<>>
    /\ pc' = "held"
    /\ idx' = 1
    /\ status_write' = NoWrite
    /\ UNCHANGED <<brokerVars, coreVars, trade_dca, pureVars>>

\* the asset, quantity and prices of the running held-loop iteration
CurHolding == held_iter[idx]
CurSymbol == CurHolding.asset_code
CurQuantity == CurHolding.total_quantity

InHeldLoop == pc = "held" /\ idx <= Len(held_iter)

HeldLoopDoneEarly == pc = "held"

\* the held-asset loop has gone through every holding
HeldLoopDone == pc = "held" /\ idx > Len(held_iter)

\* full_symbol not in valid_symbols: continue
HeldSkip ==
    /\ InHeldLoop
    /\ prices[CurSymbol] = NoQuote
    /\ idx' = idx + 1
    /\ UNCHANGED <<now, ticks, pc, brokerVars, coreVars, last_good_bid_ask,
                   last_good_account_snapshot, localVars, holdings, trades_made,
                   status_write, tick_log, trade_dca, prev_complete, pureVars>>

\* What the exit paths do after place_sell_order, whatever it returned:
\* trades_made, trailing_pm.pop, _reset_dca_window_for_trade(sold=True),
\* holdings = get_holdings().  A filled sell empties the position at the exchange.
ExitEffects(symbol, filled) ==
    /\ broker_qty' = IF filled THEN [broker_qty EXCEPT ![symbol] = 0] ELSE broker_qty
    /\ broker_buys' = IF filled THEN [broker_buys EXCEPT ![symbol] = <<>>] ELSE broker_buys
    /\ trade_dca' = IF filled THEN [trade_dca EXCEPT ![symbol] = <<>>] ELSE trade_dca
    /\ trades_made' = TRUE
    /\ trailing_pm' = [trailing_pm EXCEPT ![symbol] = NoTrail]
    /\ dca_buy_ts' = [dca_buy_ts EXCEPT ![symbol] = <<>>]
    /\ dca_last_sell_ts' = [dca_last_sell_ts EXCEPT ![symbol] = now]
    /\ holdings' = broker_qty'
    /\ idx' = idx + 1
    /\ UNCHANGED <<now, ticks, pc, cost_basis, dca_levels_triggered, last_good_bid_ask,
                   last_good_account_snapshot, localVars, status_write, prev_complete, pureVars>>

\* Pine override: a sell/stop signal sells the holding and continues
PineExit ==
    /\ InHeldLoop
    /\ prices[CurSymbol] # NoQuote
    /\ CurQuantity > 0
    /\ \E action \in PineExitActions \ {""}, filled \in BOOLEAN :
        /\ tick_log' = Append(tick_log, [kind |-> "pine_sell", asset |-> CurSymbol,
                                         quantity |-> CurQuantity, filled |-> filled])
        /\ ExitEffects(CurSymbol, filled)

\* the trailing state after this tick's pin, arm and advance (the block is
\* skipped when avg_cost_basis is 0)
TrailEval(symbol) ==
    LET avg_cost_basis == cost_basis[symbol]
        base_pm_line == BasePmLine(avg_cost_basis, Len(dca_levels_triggered[symbol]))
        bid == prices[symbol].bid
    IN  IF avg_cost_basis > 0
        THEN TrailAdvance(TrailArm(TrailPin(trailing_pm[symbol], base_pm_line), bid),
                          base_pm_line, bid)
        ELSE trailing_pm[symbol]

\* above_now, taken after the pin and before the advance
TrailAboveNow(symbol) ==
    AboveNow(TrailPin(trailing_pm[symbol],
                      BasePmLine(cost_basis[symbol], Len(dca_levels_triggered[symbol]))),
             prices[symbol].bid)

\* the forced sell is due in this iteration
TrailSellDue(symbol) ==
    cost_basis[symbol] > 0 /\ TrailCross(TrailEval(symbol), prices[symbol].bid)

TpmEvent(symbol, sold) ==
    [kind |-> "tpm", asset |-> symbol,
     active |-> TrailEval(symbol).active,
     was_above |-> trailing_pm[symbol].was_above,
     below |-> prices[symbol].bid * Milli < TrailEval(symbol).line,
     sell |-> sold, quantity |-> IF sold THEN CurQuantity ELSE 0,
     held |-> broker_qty[symbol]]

\* trailing PM: forced sell on the cross, then continue
TrailExit ==
    /\ InHeldLoop
    /\ prices[CurSymbol] # NoQuote
    /\ TrailSellDue(CurSymbol)
    /\ \E filled \in BOOLEAN :
        /\ tick_log' = Append(tick_log, TpmEvent(CurSymbol, TRUE))
        /\ ExitEffects(CurSymbol, filled)

\* state["was_above"] = above_now, at the end of the trailing block
TrailKept(symbol) ==
    IF cost_basis[symbol] > 0
    THEN [TrailEval(symbol) EXCEPT !.was_above = TrailAboveNow(symbol)]
    ELSE trailing_pm[symbol]

\* the held-loop iteration goes on to DCA: no Pine exit, no forced sell
ReachesDca ==
    /\ InHeldLoop
    /\ prices[CurSymbol] # NoQuote
    /\ ~TrailSellDue(CurSymbol)

TpmLog(symbol) ==
    IF cost_basis[symbol] > 0 THEN <<TpmEvent(symbol, FALSE)>> ELSE <<>>

\* number of DCA buys filled in the open position within the last 24 h
TradeDcaInWindow(symbol) ==
    Cardinality({i \in 1..Len(trade_dca[symbol]) :
                    trade_dca[symbol][i] >= now - dca_window_seconds})

DcaEvent(symbol, stage, placed, filled, after) ==
    [kind |-> "dca", asset |-> symbol, stage |-> stage, placed |-> placed, filled |-> filled,
     amount |-> 2 * (CurQuantity * prices[symbol].bid),
     in_window |-> TradeDcaInWindow(symbol),
     before |-> dca_levels_triggered[symbol], after |-> after]

DcaTriggered(symbol, neural_level_now) ==
    LET stage == Len(dca_levels_triggered[symbol])
    IN  \/ HardHit(prices[symbol].ask, cost_basis[symbol], stage)
        \/ NeuralHit(prices[symbol].ask, cost_basis[symbol], stage, neural_level_now)

\* neither hard_hit nor neural_hit
DcaIdle ==
    /\ ReachesDca
    /\ \E neural_level_now \in LongLevels : ~DcaTriggered(CurSymbol, neural_level_now)
    /\ trailing_pm' = [trailing_pm EXCEPT ![CurSymbol] = TrailKept(CurSymbol)]
    /\ tick_log' = tick_log \o TpmLog(CurSymbol)
                   \o <<DcaEvent(CurSymbol, Len(dca_levels_triggered[CurSymbol]), FALSE, FALSE,
                                 dca_levels_triggered[CurSymbol])>>
    /\ idx' = idx + 1
    /\ UNCHANGED <<now, ticks, pc, brokerVars, cost_basis, dca_levels_triggered, dca_buy_ts,
                   dca_last_sell_ts, last_good_bid_ask, last_good_account_snapshot, localVars,
                   holdings, trades_made, status_write, trade_dca, prev_complete, pureVars>>

\* triggered, but skipped: 24 h limit reached, or not enough funds.
\* _dca_window_count has pruned the stored list.
DcaSkipped ==
    /\ ReachesDca
    /\ \E neural_level_now \in LongLevels : DcaTriggered(CurSymbol, neural_level_now)
    /\ LET kept == DcaKept(dca_buy_ts[CurSymbol], dca_last_sell_ts[CurSymbol], now)
           dca_amount == 2 * (CurQuantity * prices[CurSymbol].bid)
       IN  /\ DcaLimitReached(Len(kept)) \/ dca_amount > buying_power
           /\ dca_buy_ts' = [dca_buy_ts EXCEPT ![CurSymbol] = kept]
    /\ trailing_pm' = [trailing_pm EXCEPT ![CurSymbol] = TrailKept(CurSymbol)]
    /\ tick_log' = tick_log \o TpmLog(CurSymbol)
                   \o <<DcaEvent(CurSymbol, Len(dca_levels_triggered[CurSymbol]), FALSE, FALSE,
                                 dca_levels_triggered[CurSymbol])>>
    /\ idx' = idx + 1
    /\ UNCHANGED <<now, ticks, pc, brokerVars, cost_basis, dca_levels_triggered,
                   dca_last_sell_ts, last_good_bid_ask, last_good_account_snapshot, localVars,
                   holdings, trades_made, status_write, trade_dca, prev_complete, pureVars>>

\* lots a market buy of amount_in_usd fills at the ask
LotsFor(amount_in_usd, ask) == IF ask > 0 THEN amount_in_usd \div ask ELSE 0

StageAppendNone(levels, current_stage) == levels

StageAppendNext(levels, current_stage) == Append(levels, current_stage + 1)

\* self.dca_levels_triggered.setdefault(symbol, []).append(current_stage)
StageAppend(levels, current_stage) == Append(levels, current_stage)

\* triggered and placed: place_buy_order(dca_amount, tag="DCA")
DcaBuy ==
    /\ ReachesDca
    /\ \E neural_level_now \in LongLevels : DcaTriggered(CurSymbol, neural_level_now)
    /\ LET symbol == CurSymbol
           current_stage == Len(dca_levels_triggered[symbol])
           kept == DcaKept(dca_buy_ts[symbol], dca_last_sell_ts[symbol], now)
           dca_amount == 2 * (CurQuantity * prices[symbol].bid)
           lots == LotsFor(dca_amount, prices[symbol].ask)
       IN  /\ ~DcaLimitReached(Len(kept))
           /\ dca_amount <= buying_power
           /\ \E filled \in BOOLEAN :
               /\ filled => lots > 0 /\ broker_qty[symbol] + lots <= MaxLots
               /\ IF filled
                  THEN /\ broker_qty' = [broker_qty EXCEPT ![symbol] = @ + lots]
                       /\ broker_buys' = [broker_buys EXCEPT ![symbol] =
                              Append(@, [quantity |-> lots, price |-> prices[symbol].ask])]
                       /\ dca_levels_triggered' = [dca_levels_triggered EXCEPT ![symbol] =
                              StageAppend(@, current_stage)]
                       /\ dca_buy_ts' = [dca_buy_ts EXCEPT ![symbol] =
                              DcaKept(Append(kept, now), dca_last_sell_ts[symbol], now)]
                       /\ trailing_pm' = [trailing_pm EXCEPT ![symbol] = NoTrail]
                       /\ trades_made' = TRUE
                       /\ trade_dca' = [trade_dca EXCEPT ![symbol] = Append(@, now)]
                  ELSE /\ dca_buy_ts' = [dca_buy_ts EXCEPT ![symbol] = kept]
                       /\ trailing_pm' = [trailing_pm EXCEPT ![symbol] = TrailKept(symbol)]
                       /\ UNCHANGED <<brokerVars, dca_levels_triggered, trades_made, trade_dca>>
               /\ tick_log' = tick_log \o TpmLog(symbol)
                              \o <<DcaEvent(symbol, current_stage, TRUE, filled,
                                            dca_levels_triggered'[symbol])>>
    /\ idx' = idx + 1
    /\ UNCHANGED <<now, ticks, pc, cost_basis, dca_last_sell_ts, last_good_bid_ask,
                   last_good_account_snapshot, localVars, holdings, status_write,
                   prev_complete, pureVars>>

\* manage_trades returns: its locals are gone
LocalsDropped ==
    /\ held_iter' = <<>>
    /\ holdings' = [a \in Assets |-> 0]
    /\ prices' = [a \in Assets |-> NoQuote]
    /\ buying_power' = 0
    /\ total_account_value' = 0
    /\ trading_pairs' = TRUE
    /\ trades_made' = FALSE
    /\ tick_log' = <<>>
    /\ pc' = "idle"
    /\ idx' = 0
    /\ UNCHANGED snapshot_ok

\* after the held loop: "if not trading_pairs: return" ends the tick here
NoTradingPairs ==
    /\ HeldLoopDone
    /\ ~trading_pairs
    /\ LocalsDropped
    /\ UNCHANGED <<now, ticks, brokerVars, coreVars, last_good_bid_ask,
                   last_good_account_snapshot, status_write, trade_dca, prev_complete, pureVars>>

\* ... otherwise on to the new-entry loop
StartEntryLoop ==
    /\ HeldLoopDone
    /\ trading_pairs
    /\ pc' = "entry"
    /\ idx' = 1
    /\ UNCHANGED <<now, ticks, brokerVars, coreVars, last_good_bid_ask,
                   last_good_account_snapshot, localVars, holdings, trades_made,
                   status_write, tick_log, trade_dca, prev_complete, pureVars>>

InEntryLoop == pc = "entry" /\ idx <= Len(crypto_symbols)
ShortLevels == {0, 2}

\* "if full_symbol in holding_full_symbols": the coin is in the holdings the loop has
AlreadyHeldNever(held, base_symbol) == FALSE
AlreadyHeld(held, base_symbol) == held[base_symbol] > 0

\* already held, or the gate says no: next coin
EntrySkip ==
    /\ InEntryLoop
    /\ \/ AlreadyHeld(holdings, crypto_symbols[idx])
       \/ \E buy_count \in LongLevels, sell_count \in ShortLevels :
            ~EntryGate("off", "", StrategyDefault, buy_count, sell_count, NoSeries)
    /\ idx' = idx + 1
    /\ UNCHANGED <<now, ticks, pc, brokerVars, coreVars, last_good_bid_ask,
                   last_good_account_snapshot, localVars, holdings, trades_made,
                   status_write, tick_log, trade_dca, prev_complete, pureVars>>

\* the gate allows: place_buy_order(allocation_in_usd); on success a fresh trade
EntryBuy ==
    /\ InEntryLoop
    /\ LET base_symbol == crypto_symbols[idx]
       IN  /\ ~AlreadyHeld(holdings, base_symbol)
           /\ \E buy_count \in LongLevels, sell_count \in ShortLevels, filled \in BOOLEAN :
               /\ EntryGate("off", "", StrategyDefault, buy_count, sell_count, NoSeries)
               /\ filled => Usable(prices[base_symbol])
               /\ tick_log' = Append(tick_log, [kind |-> "entry", asset |-> base_symbol,
                                                long |-> buy_count, short |-> sell_count,
                                                filled |-> filled])
               /\ IF filled
                  THEN /\ broker_qty' = [broker_qty EXCEPT ![base_symbol] = 1]
                       /\ broker_buys' = [broker_buys EXCEPT ![base_symbol] =
                              <<[quantity |-> 1, price |-> prices[base_symbol].ask]>>]
                       /\ trades_made' = TRUE
                       /\ dca_levels_triggered' = [dca_levels_triggered EXCEPT ![base_symbol] = <<>>]
                       /\ dca_buy_ts' = [dca_buy_ts EXCEPT ![base_symbol] = <<>>]
                       /\ trailing_pm' = [trailing_pm EXCEPT ![base_symbol] = NoTrail]
                       /\ trade_dca' = [trade_dca EXCEPT ![base_symbol] = <<>>]
                       /\ holdings' = broker_qty'
                  ELSE UNCHANGED <<brokerVars, trades_made, dca_levels_triggered, dca_buy_ts,
                                   trailing_pm, trade_dca, holdings>>
    /\ idx' = idx + 1
    /\ UNCHANGED <<now, ticks, pc, cost_basis, dca_last_sell_ts, last_good_bid_ask,
                   last_good_account_snapshot, localVars, status_write, prev_complete, pureVars>>

\* after the loops: recalculate after trades, then write the hub status
TickEnd ==
    /\ pc = "entry" /\ idx > Len(crypto_symbols)
    /\ IF trades_made
       THEN /\ cost_basis' = IF \E a \in Assets : broker_qty[a] > 0
                             THEN CalculateCostBasis(broker_qty, broker_buys)
                             ELSE cost_basis
            /\ dca_levels_triggered' =
                   InitializeDcaLevels(dca_levels_triggered, broker_qty, broker_buys)
       ELSE UNCHANGED <<cost_basis, dca_levels_triggered>>
    /\ status_write' = [written |-> TRUE, total_account_value |-> total_account_value]
    /\ LocalsDropped
    /\ UNCHANGED <<now, ticks, brokerVars, trailing_pm, dca_buy_ts, dca_last_sell_ts,
                   last_good_bid_ask, last_good_account_snapshot, trade_dca, prev_complete,
                   pureVars>>

Next ==
    \/ TickBegin
    \/ HeldSkip
    \/ PineExit
    \/ TrailExit
    \/ DcaIdle
    \/ DcaSkipped
    \/ DcaBuy
    \/ NoTradingPairs
    \/ StartEntryLoop
    \/ EntrySkip
    \/ EntryBuy
    \/ TickEnd

Spec == Init /\ [][Next]_vars

\* ------------------------------------------------ the entry gate, on its own
\* Pine settings and signals: (pine_signal_mode, action of the signal)
PineCases == {<<"off", "">>, <<"replace", "buy">>, <<"replace", "">>,
              <<"filter", "sell">>, <<"filter", "">>}
GateLongLevels == {0, 3, 5, 7}

InitGate ==
    /\ TraderInit([a \in Assets |-> NoPosition])
    /\ PureInit

\* one pass of the new-entry loop's gate for a coin that is not held
\* (a run evaluates the gate once)
EvalGate ==
    /\ gate = NoGate
    /\ \E pine \in PineCases, cfg \in Strategies, buy_count \in GateLongLevels,
          sell_count \in ShortLevels, series \in SeriesFacts :
        LET result == StrategyShouldEnter(cfg, buy_count, sell_count, series)
        IN  gate' = [done |-> TRUE, pine_mode |-> pine[1], pine_action |-> pine[2],
                     cfg |-> cfg, long_level |-> buy_count, short_level |-> sell_count,
                     series |-> series,
                     placed |-> EntryGate(pine[1], pine[2], cfg, buy_count, sell_count, series),
                     allowed |-> result.allowed, num |-> result.num, den |-> result.den]
    /\ UNCHANGED <<traderVars, window, order, paper, bpaper, disk, basis, norm, sig, port, request, repair, dca_init, trigger, feed, pnl, pine_eval, paper_test, seed_run, funds>>

NextGate == EvalGate

SpecGate == InitGate /\ [][NextGate]_vars

\* ------------------------------------------- _dca_window_count, on its own
\* recorded times around the window's edges, at or before the call
WindowTimes == {Start - dca_window_seconds - 1, Start - dca_window_seconds,
                Start - dca_window_seconds + 1, Start - 1, Start}
LastSells == {0} \cup WindowTimes

\* the lists _dca_buy_ts can hold: times in the order they were recorded
TsLists ==
    {l \in UNION {[1..n -> WindowTimes] : n \in 0..MaxLen} :
        \A i \in 1..Len(l) - 1 : l[i] <= l[i + 1]}

CountWindow ==
    /\ \E ts_list \in TsLists, last_sell \in LastSells :
        window' = [done |-> TRUE, ts_list |-> ts_list, last_sell |-> last_sell,
                   now_ts |-> Start,
                   kept |-> DcaKept(ts_list, last_sell, Start),
                   count |-> DcaWindowCount(ts_list, last_sell, Start)]
    /\ UNCHANGED <<traderVars, gate, order, paper, bpaper, disk, basis, norm, sig, port, request, repair, dca_init, trigger, feed, pnl, pine_eval, paper_test, seed_run, funds>>

NextWindow == CountWindow

SpecWindow == InitGate /\ [][NextWindow]_vars

\* ------------------------------------------------------------- properties
\* C1: while an asset's trailing state is armed before and after a step, its
\* stored line has not decreased.
C1_LineMonotone ==
    [][\A a \in Assets :
          (trailing_pm[a].active /\ trailing_pm'[a].active)
              => trailing_pm'[a].line >= trailing_pm[a].line]_vars

\* an armed state evaluated at a bid under its peak: the line stays where the
\* peak put it, above the gap under the current bid
C1_Witness ==
    \E i \in 1..Len(tick_log) :
        /\ tick_log[i].kind = "tpm"
        /\ ~tick_log[i].sell
        /\ trailing_pm[tick_log[i].asset].active
        /\ prices[tick_log[i].asset].bid < trailing_pm[tick_log[i].asset].peak
        /\ trailing_pm[tick_log[i].asset].line
               > prices[tick_log[i].asset].bid * (Milli - trailing_gap_pct)

\* C2: a trailing-PM evaluation sells exactly when the state is armed, was
\* above the line on the last tick and the bid is now below the line; the sell
\* is for the whole held quantity, happens once per asset and tick, and leaves
\* no trailing state for the asset.
C2_TrailSell ==
    \A i \in 1..Len(tick_log) :
        tick_log[i].kind = "tpm" =>
            /\ tick_log[i].sell <=>
                   (tick_log[i].active /\ tick_log[i].was_above /\ tick_log[i].below)
            /\ tick_log[i].sell =>
                   /\ tick_log[i].quantity = tick_log[i].held
                   /\ tick_log[i].held > 0
                   /\ trailing_pm[tick_log[i].asset] = NoTrail
            /\ \A j \in 1..Len(tick_log) :
                   (tick_log[j].kind = "tpm" /\ tick_log[j].asset = tick_log[i].asset) => j = i

\* a forced sell has been ordered
C2_Witness ==
    \E i \in 1..Len(tick_log) :
        /\ tick_log[i].kind = "tpm"
        /\ tick_log[i].sell
        /\ tick_log[i].was_above
        /\ tick_log[i].below

\* C3: a DCA buy is placed only when fewer than 2 DCA buys of the open
\* position lie in the last 86 400 seconds, so no position ever has more than
\* 2 DCA buys in that window.
C3_DcaRateLimit ==
    /\ \A i \in 1..Len(tick_log) :
           (tick_log[i].kind = "dca" /\ tick_log[i].placed)
               => tick_log[i].in_window < max_dca_buys_per_24h
    /\ \A a \in Assets : TradeDcaInWindow(a) <= max_dca_buys_per_24h

\* C4: a DCA buy placed at stage s finds stages 0..s-1 recorded, and records
\* exactly stage s when it succeeds (nothing when it fails).
C4_StageOrder ==
    \A i \in 1..Len(tick_log) :
        (tick_log[i].kind = "dca" /\ tick_log[i].placed) =>
            /\ tick_log[i].before = StageRange(tick_log[i].stage)
            /\ tick_log[i].after = IF tick_log[i].filled
                                   THEN tick_log[i].before \o <<tick_log[i].stage>>
                                   ELSE tick_log[i].before

\* a second-stage DCA buy has succeeded
C4_Witness ==
    \E i \in 1..Len(tick_log) :
        /\ tick_log[i].kind = "dca"
        /\ tick_log[i].placed
        /\ tick_log[i].filled
        /\ tick_log[i].stage >= 1

\* C5: _dca_window_count returns the number of recorded times t with
\* t > last_sell and now - 86400 <= t <= now, and keeps no other time.
C5_WindowCount ==
    window.done =>
        LET cutoff == window.now_ts - dca_window_seconds
        IN  /\ window.count =
                   Cardinality({i \in 1..Len(window.ts_list) :
                                   /\ window.ts_list[i] > window.last_sell
                                   /\ window.ts_list[i] >= cutoff
                                   /\ window.ts_list[i] <= window.now_ts})
            /\ \A j \in 1..Len(window.kept) :
                   window.kept[j] > window.last_sell /\ window.kept[j] >= cutoff

\* a count that left out a time at the last sell and a time older than the window
C5_Witness ==
    /\ window.done
    /\ window.count = 1
    /\ \E i \in 1..Len(window.ts_list) :
           /\ window.ts_list[i] <= window.last_sell
           /\ window.ts_list[i] >= window.now_ts - dca_window_seconds
    /\ \E i \in 1..Len(window.ts_list) :
           window.ts_list[i] < window.now_ts - dca_window_seconds

C7_TickOrder ==
    /\ \A i \in 1..Len(tick_log) :
           tick_log[i].kind = "dca" =>
               /\ cost_basis[tick_log[i].asset] > 0 =>
                      /\ i > 1
                      /\ tick_log[i - 1].kind = "tpm"
                      /\ tick_log[i - 1].asset = tick_log[i].asset
                      /\ ~tick_log[i - 1].sell
               /\ \A j \in 1..Len(tick_log) :
                      (tick_log[j].asset = tick_log[i].asset
                       /\ tick_log[j].kind \in {"pine_sell", "tpm"})
                          => (j < i /\ tick_log[j].kind = "tpm" /\ ~tick_log[j].sell)
    /\ \A i \in 1..Len(tick_log) :
           tick_log[i].kind = "entry" =>
               /\ \A j \in i..Len(tick_log) : tick_log[j].kind = "entry"
               /\ \A k \in 1..Len(held_iter) :
                      prices[held_iter[k].asset_code] # NoQuote =>
                          \E j \in 1..(i - 1) :
                              /\ tick_log[j].asset = held_iter[k].asset_code
                              /\ tick_log[j].kind \in {"pine_sell", "tpm", "dca"}

\* one tick has evaluated a holding for exit and DCA, bought more of it, and
\* then opened a new position in another asset
C7_Witness ==
    \E i \in 1..Len(tick_log), j \in 1..Len(tick_log) :
        /\ i < j
        /\ tick_log[i].kind = "dca" /\ tick_log[i].filled
        /\ tick_log[j].kind = "entry" /\ tick_log[j].filled

\* C8 as claimed: whatever the strategy configuration, no entry buy is placed
\* while short_level > 0.
C8_ShortVeto ==
    (gate.done /\ gate.placed) => gate.short_level = 0

\* C8, amended: the veto holds when replace_neural is off and the decision is
\* the selector's or the neural baseline's (selector mode, no indicator
\* enabled, or fewer than 30 closes).
C8_ShortVetoNeural ==
    (/\ gate.done
     /\ gate.placed
     /\ ~gate.cfg.replace_neural
     /\ \/ gate.cfg.mode = "selector"
        \/ gate.cfg.indicators = {}
        \/ ~gate.series.enough)
        => gate.short_level = 0

\* long = 5, short = 2 under the selector with an indicator: no entry
C8_Witness ==
    /\ gate.done
    /\ gate.long_level = 5 /\ gate.short_level = 2
    /\ gate.pine_mode = "off"
    /\ gate.cfg.mode = "selector" /\ ~gate.cfg.replace_neural
    /\ gate.cfg.indicators # {} /\ gate.series.enough
    /\ \A n \in gate.cfg.indicators : IndicatorConditionScore(n, gate.series).ok
    /\ ~gate.placed

\* C9: in selector mode with an indicator enabled and at least 30 closes, entry
\* is allowed iff every enabled condition is true and, unless replace_neural is
\* set, long_level >= 3 and short_level = 0.
C9_SelectorDecision ==
    (/\ gate.done
     /\ gate.cfg.mode = "selector"
     /\ gate.cfg.indicators # {}
     /\ gate.series.enough)
        => (gate.allowed <=>
               /\ \A n \in gate.cfg.indicators : IndicatorConditionScore(n, gate.series).ok
               /\ \/ gate.cfg.replace_neural
                  \/ (gate.long_level >= 3 /\ gate.short_level = 0))

\* replace_neural: allowed on the indicators alone, against the neural levels
C9_Witness ==
    /\ gate.done
    /\ gate.cfg.mode = "selector"
    /\ gate.cfg.replace_neural
    /\ gate.cfg.indicators # {}
    /\ gate.series.enough
    /\ gate.allowed
    /\ gate.long_level = 0 /\ gate.short_level > 0

\* C10 as claimed: in super mode entry is allowed iff the mean of the enabled
\* indicators' scores (with neural_score unless replace_neural) is >= 0.6, and
\* that mean is the returned score.
C10_SuperMean ==
    (gate.done /\ gate.cfg.mode = "super") =>
        LET sum == SumScores(gate.cfg.indicators, gate.series)
                   + (IF gate.cfg.replace_neural THEN 0
                      ELSE NeuralScore(gate.long_level, gate.short_level))
            count == Cardinality(gate.cfg.indicators)
                     + (IF gate.cfg.replace_neural THEN 0 ELSE 1)
        IN  count > 0 =>
                /\ gate.allowed <=> (sum * 10 >= strategy_super_threshold * ScoreOne * count)
                /\ gate.num * count = sum * gate.den

\* C10, amended: ... in super mode with at least one indicator enabled and at
\* least 30 closes.
C10_SuperMeanWithIndicators ==
    (/\ gate.done
     /\ gate.cfg.mode = "super"
     /\ gate.cfg.indicators # {}
     /\ gate.series.enough) =>
        LET sum == SumScores(gate.cfg.indicators, gate.series)
                   + (IF gate.cfg.replace_neural THEN 0
                      ELSE NeuralScore(gate.long_level, gate.short_level))
            count == Cardinality(gate.cfg.indicators)
                     + (IF gate.cfg.replace_neural THEN 0 ELSE 1)
        IN  /\ gate.allowed <=> (sum * 10 >= strategy_super_threshold * ScoreOne * count)
            /\ gate.num * count = sum * gate.den

\* super mode allows an entry whose mean score is exactly the threshold
C10_Witness ==
    /\ gate.done
    /\ gate.cfg.mode = "super"
    /\ gate.cfg.indicators # {}
    /\ gate.series.enough
    /\ gate.allowed
    /\ gate.num * 10 = strategy_super_threshold * ScoreOne * gate.den

\* ------------------------------ the HMAC driver's create_order, on its own
\* Quantities, prices and filter values are whole numbers of the smallest unit
\* in use: the code computes them in Decimal, which is exact, and a short
\* decimal survives float(), str() and _format_decimal unchanged. A filter
\* value of 0 stands for a filter the exchange did not send or sent as "0".
\* None: no price argument, no MIN_NOTIONAL filter, a ticker request that failed.
None == -1
ExchangeFilters ==
    [step_size : {0, 1, 4}, min_qty : {0, 4}, tick_size : {0, 1, 5}, min_price : {0, 5},
     min_notional : {None, 0, 30}]

\* (x / unit).to_integral_value(rounding=ROUND_DOWN) * unit, for x >= 0
RoundDown(x, unit) == (x \div unit) * unit

\* the call raised before it changed or sent anything
Raised(why) == [ok |-> FALSE, error |-> why]

\* adjust_order_params(): the adjusted quantity and price, or the error raised
AdjustOrderParams(quantity, price, filters, ticker) ==
    LET qty == IF filters.step_size > 0 THEN RoundDown(quantity, filters.step_size)
               ELSE quantity
        ticked == price # None /\ filters.tick_size > 0
        px == IF ticked THEN RoundDown(price, filters.tick_size) ELSE price
        notional_px == IF px = None THEN ticker ELSE px
    IN  IF filters.min_qty # 0 /\ qty < filters.min_qty
        THEN Raised("minQty")
        ELSE IF ticked /\ filters.min_price # 0 /\ px < filters.min_price
        THEN Raised("minPrice")
        ELSE IF filters.min_notional = None
        THEN [ok |-> TRUE, qty |-> qty, px |-> px]
        ELSE IF notional_px = None
        THEN Raised("get_price")
        ELSE IF qty * notional_px < filters.min_notional
        THEN Raised("minNotional")
        ELSE [ok |-> TRUE, qty |-> qty, px |-> notional_px]

\* create_order(): the parameters of POST /api/v3/order, or the error raised
\* before the request
CreateOrder(type, quantity, price, filters, ticker) ==
    LET adj == AdjustOrderParams(quantity, price, filters, ticker)
    IN  IF ~adj.ok
        THEN adj
        ELSE IF type = "LIMIT" /\ adj.px = None
        THEN Raised("LIMIT orders require price.")
        ELSE [ok |-> TRUE, quantity |-> adj.qty,
              price |-> IF type = "LIMIT" THEN adj.px ELSE None]

\* one call of create_order (a run makes one call); the ticker request of
\* get_price fails (None) or returns a price
SubmitOrder ==
    /\ order = NotRun
    /\ \E type \in {"MARKET", "LIMIT"}, quantity \in 0..MaxQty, price \in {None, 4, 7, 12},
          filters \in ExchangeFilters, ticker \in {None, 0, 3, 10} :
        LET sent == CreateOrder(type, quantity, price, filters, ticker)
        IN  order' = [done |-> TRUE, type |-> type, quantity_in |-> quantity,
                      price_in |-> price, filters |-> filters, ticker |-> ticker,
                      submitted |-> sent.ok,
                      quantity |-> IF sent.ok THEN sent.quantity ELSE None,
                      price |-> IF sent.ok THEN sent.price ELSE None]
    /\ UNCHANGED <<traderVars, gate, window, paper, bpaper, disk, basis, norm, sig, port, request, repair, dca_init, trigger, feed, pnl, pine_eval, paper_test, seed_run, funds>>

SpecOrder == InitGate /\ [][SubmitOrder]_vars

\* C11: every order create_order submits has a quantity that is the input
\* rounded down to a multiple of step_size, for a LIMIT order a price that is a
\* multiple of tick_size, a quantity of at least min_qty, and quantity * price
\* of at least min_notional, the price being the limit price of a LIMIT order
\* and the last ticker price of a MARKET order.
C11_OrderFilters ==
    (order.done /\ order.submitted) =>
        LET f == order.filters
            notional_price == IF order.type = "LIMIT" THEN order.price ELSE order.ticker
        IN  /\ f.step_size > 0 =>
                /\ order.quantity % f.step_size = 0
                /\ order.quantity <= order.quantity_in
                /\ order.quantity_in - order.quantity < f.step_size
            /\ (order.type = "LIMIT" /\ f.tick_size > 0) => order.price % f.tick_size = 0
            /\ order.quantity >= f.min_qty
            /\ f.min_notional # None =>
                /\ notional_price # None
                /\ order.quantity * notional_price >= f.min_notional

\* --------------------------------------------- the paper brokers, on their own
\* PaperBroker keeps floats; the model keeps the same numbers exactly: money in
\* whole units, quantities in units of 1e-8 coin (so the "effectively zero"
\* bound 0.00000001 is one unit), the average cost as a fraction num/den.
\* Amounts and prices are chosen so that amount / price is a whole number.
Dust == 1

\* the virtual balance does not cover the buy: "amount_in_base_currency > balance"
BuyRejectedNever(amount, balance) == FALSE
BuyRejected(amount, balance) == amount > balance

\* the holding does not cover the sell: "asset_quantity > available"
SellRejectedNever(asset_quantity, available) == FALSE
SellRejected(asset_quantity, available) == asset_quantity > available

\* ((old_qty * old_cost) + (quantity * price)) / new_qty, and price when new_qty = 0
LatestCost(old_qty, old_cost, quantity, price) == [num |-> price, den |-> 1]
WeightedAvgCost(old_qty, old_cost, quantity, price) ==
    IF old_qty + quantity > 0
    THEN [num |-> old_qty * old_cost.num + quantity * price * old_cost.den,
          den |-> old_cost.den * (old_qty + quantity)]
    ELSE [num |-> price, den |-> 1]

\* what a call found before it ran
PaperBefore(state) == [balance |-> state.balance, holding |-> state.holding,
                       orders |-> state.orders]

\* place_buy_order(): price is None when the price source has no ask for the symbol
PlaceBuyOrder(state, amount, price) ==
    LET call == [done |-> TRUE, side |-> "buy", arg |-> amount, price |-> price,
                 before |-> PaperBefore(state)]
        quantity == amount \div price
        existing == state.holding
    IN  IF price = None \/ BuyRejected(amount, state.balance)
        THEN [state EXCEPT !.call = call @@ [filled |-> FALSE]]
        ELSE [balance |-> state.balance - amount,
              holding |-> IF existing.held
                          THEN [held |-> TRUE, quantity |-> existing.quantity + quantity,
                                avg_cost |-> WeightedAvgCost(existing.quantity,
                                                 existing.avg_cost, quantity, price)]
                          ELSE [held |-> TRUE, quantity |-> quantity,
                                avg_cost |-> [num |-> price, den |-> 1]],
              orders |-> Append(state.orders,
                                [side |-> "buy", quantity |-> quantity, price |-> price,
                                 amount |-> amount, avg_cost |-> [num |-> 0, den |-> 1]]),
              call |-> call @@ [filled |-> TRUE]]

\* place_sell_order(): price is None when the price source has no bid for the
\* symbol; deleting a holding that is not there raises KeyError before any change
PlaceSellOrder(state, asset_quantity, price) ==
    LET call == [done |-> TRUE, side |-> "sell", arg |-> asset_quantity, price |-> price,
                 before |-> PaperBefore(state)]
        holding == state.holding
        available == IF holding.held THEN holding.quantity ELSE 0
        new_qty == available - asset_quantity
        amount == asset_quantity * price
    IN  IF \/ SellRejected(asset_quantity, available)
           \/ price = None
           \/ (new_qty <= Dust /\ ~holding.held)
        THEN [state EXCEPT !.call = call @@ [filled |-> FALSE]]
        ELSE [balance |-> state.balance + amount,
              holding |-> IF new_qty <= Dust THEN NoHolding
                          ELSE [holding EXCEPT !.quantity = new_qty],
              orders |-> Append(state.orders,
                                [side |-> "sell", quantity |-> asset_quantity,
                                 price |-> price, amount |-> amount,
                                 avg_cost |-> holding.avg_cost]),
              call |-> call @@ [filled |-> TRUE]]

\* a run trades through one broker: the other one is still in its fresh state
PaperBuy ==
    /\ bpaper = BPaperStart
    /\ Len(paper.orders) < MaxOrders
    /\ \E amount \in {0, 4, 8, 12}, price \in {None, 2, 4} :
        paper' = PlaceBuyOrder(paper, amount, price)
    /\ UNCHANGED <<traderVars, gate, window, order, bpaper, disk, basis, norm, sig, port, request, repair, dca_init, trigger, feed, pnl, pine_eval, paper_test, seed_run, funds>>

PaperSell ==
    /\ bpaper = BPaperStart
    /\ Len(paper.orders) < MaxOrders
    /\ \E asset_quantity \in 0..MaxQty + 2, price \in {None, 2, 4, 6} :
        paper' = PlaceSellOrder(paper, asset_quantity, price)
    /\ UNCHANGED <<traderVars, gate, window, order, bpaper, disk, basis, norm, sig, port, request, repair, dca_init, trigger, feed, pnl, pine_eval, paper_test, seed_run, funds>>

\* BinancePaperExchangeClient.create_order() for a MARKET order without a price,
\* with the defaults: no slippage, no partial fills, one fee rate. The exchange
\* filters are those of ExchangeInfo; the ticker request fails (None) or gives
\* the fill price. Balances are in thousandths, the fee rate in thousandths.
taker_fee_rate == 1
ExchangeInfo == [step_size |-> 1, min_qty |-> 1, tick_size |-> 0, min_price |-> 0,
                 min_notional |-> None]

BPaperCreateOrder(state, side, quantity, ticker) ==
    LET call == [done |-> TRUE, side |-> side, arg |-> quantity, price |-> ticker,
                 before |-> [quote |-> state.quote, base |-> state.base,
                             orders |-> state.orders]]
        adj == AdjustOrderParams(quantity, None, ExchangeInfo, ticker)
        fill_price == IF adj.px # None THEN adj.px ELSE ticker
        notional == adj.qty * fill_price
        raised == \/ ~adj.ok
                  \/ fill_price = None
                  \/ side = "BUY" /\ state.quote < notional * Milli
                  \/ side = "SELL" /\ state.base < adj.qty * Milli
    IN  IF raised
        THEN [state EXCEPT !.call = call @@ [filled |-> FALSE, notional |-> 0]]
        ELSE IF side = "BUY"
        THEN [quote |-> state.quote - notional * Milli,
              base |-> state.base + Max(0, adj.qty * (Milli - taker_fee_rate)),
              orders |-> state.orders + 1,
              call |-> call @@ [filled |-> TRUE, notional |-> notional]]
        ELSE [quote |-> state.quote + notional * (Milli - taker_fee_rate),
              base |-> state.base - adj.qty * Milli,
              orders |-> state.orders + 1,
              call |-> call @@ [filled |-> TRUE, notional |-> notional]]

BPaperOrder ==
    /\ paper = PaperStart
    /\ bpaper.orders < MaxOrders
    /\ \E side \in {"BUY", "SELL"}, quantity \in 0..3, ticker \in {None, 10, 20} :
        bpaper' = BPaperCreateOrder(bpaper, side, quantity, ticker)
    /\ UNCHANGED <<traderVars, gate, window, order, paper, disk, basis, norm, sig, port, request, repair, dca_init, trigger, feed, pnl, pine_eval, paper_test, seed_run, funds>>

SpecPaper == InitGate /\ [][PaperBuy \/ PaperSell \/ BPaperOrder]_vars

\* C12: a sell is filled only if the holding covers it; after a filled sell the
\* holding is gone (what would remain is at most 1e-8) or holds exactly what
\* remains; a sell of more than is held, or without a price, is rejected, and a
\* rejected sell leaves balance, holding and order history as they were.
C12_SellWithinHolding ==
    (paper.call.done /\ paper.call.side = "sell") =>
        LET before == paper.call.before
            Q == IF before.holding.held THEN before.holding.quantity ELSE 0
            q == paper.call.arg
        IN  /\ paper.call.filled =>
                /\ q <= Q
                /\ \/ ~paper.holding.held /\ Q - q <= Dust
                   \/ /\ paper.holding.held /\ Q - q > Dust
                      /\ paper.holding.quantity = Q - q
            /\ (q > Q \/ paper.call.price = None) => ~paper.call.filled
            /\ ~paper.call.filled => PaperBefore(paper) = before

\* a filled sell that leaves 1e-8 of the holding, which is then dropped, after a
\* sell of the same holding has been rejected
C12_Witness ==
    /\ paper.call.done /\ paper.call.side = "sell" /\ paper.call.filled
    /\ paper.call.before.holding.quantity - paper.call.arg = Dust
    /\ ~paper.holding.held

\* C13: a paper buy is filled only if the virtual quote balance covers its
\* amount, a buy that is not filled leaves the state as it was, and the quote
\* balance of PaperBroker and of the Binance paper client is never negative.
C13_BalanceNonNegative ==
    /\ paper.balance >= 0
    /\ bpaper.quote >= 0
    /\ (paper.call.done /\ paper.call.side = "buy") =>
        /\ paper.call.filled => paper.call.arg <= paper.call.before.balance
        /\ paper.call.arg > paper.call.before.balance => ~paper.call.filled
        /\ ~paper.call.filled => PaperBefore(paper) = paper.call.before
    /\ (bpaper.call.done /\ bpaper.call.side = "BUY") =>
        /\ bpaper.call.filled => bpaper.call.notional * Milli <= bpaper.call.before.quote
        /\ ~bpaper.call.filled =>
            /\ bpaper.quote = bpaper.call.before.quote
            /\ bpaper.base = bpaper.call.before.base
            /\ bpaper.orders = bpaper.call.before.orders

\* after a filled buy, a buy with a price for more than the balance left, rejected
C13_Witness ==
    /\ paper.call.done /\ paper.call.side = "buy" /\ ~paper.call.filled
    /\ paper.call.price # None
    /\ paper.call.arg > paper.balance
    /\ Len(paper.orders) > 0

\* C14: after buys of the coin from the fresh state and then a sell of the whole
\* holding, the balance has changed by (sell price - average cost) * quantity
\* sold, the average cost being the weighted one the buys have maintained.
C14_RoundTripPnl ==
    LET n == Len(paper.orders)
        held == paper.call.before.holding
    IN  (/\ paper.call.done /\ paper.call.side = "sell" /\ paper.call.filled
         /\ n >= 2
         /\ \A i \in 1..n - 1 : paper.orders[i].side = "buy"
         /\ paper.call.arg = held.quantity)
        => (paper.balance - initial_balance) * held.avg_cost.den
               = (paper.call.price * held.avg_cost.den - held.avg_cost.num) * held.quantity

\* two buys at different prices, then the whole holding sold at a profit
C14_Witness ==
    /\ paper.call.done /\ paper.call.side = "sell" /\ paper.call.filled
    /\ Len(paper.orders) = 3
    /\ paper.orders[1].side = "buy" /\ paper.orders[2].side = "buy"
    /\ paper.orders[1].price # paper.orders[2].price
    /\ paper.orders[1].quantity > 0 /\ paper.orders[2].quantity > 0
    /\ paper.call.arg = paper.call.before.holding.quantity
    /\ paper.balance > initial_balance

\* ------------------------------------------- the atomic JSON writer, on its own
\* _atomic_write_json() and PaperBroker._save_state(): open(tmp, "w"), json.dump
\* in pieces, close, os.replace(tmp, path), everything inside try/except: pass.
\* The process can fail or be killed between any two steps; what is on disk stays.
\* disk.prev remembers what the target held when the write began.
WriteOpen ==
    /\ disk.step = "idle"
    /\ disk.writes < MaxWrites
    /\ \E path \in Targets :
        disk' = [disk EXCEPT !.files[TmpPath(path)] = [version |-> disk.writes + 1,
                                                       chunks |-> 0],
                             !.step = "dump", !.path = path, !.doc = disk.writes + 1,
                             !.prev = disk.files[path], !.writes = disk.writes + 1]
    /\ UNCHANGED <<traderVars, gate, window, order, paper, bpaper, basis, norm, sig, port, request, repair, dca_init, trigger, feed, pnl, pine_eval, paper_test, seed_run, funds>>

\* json.dump writes the next piece; the with block closes the file after the last
WriteDump ==
    /\ disk.step = "dump"
    /\ LET tmp == TmpPath(disk.path)
           written == disk.files[tmp].chunks + 1
       IN  disk' = [disk EXCEPT !.files[tmp].chunks = written,
                                !.step = IF written = Chunks THEN "replace" ELSE "dump"]
    /\ UNCHANGED <<traderVars, gate, window, order, paper, bpaper, basis, norm, sig, port, request, repair, dca_init, trigger, feed, pnl, pine_eval, paper_test, seed_run, funds>>

\* os.replace(tmp, path): one step of the file system
WriteReplace ==
    /\ disk.step = "replace"
    /\ LET tmp == TmpPath(disk.path)
           moved == [disk.files EXCEPT ![disk.path] = disk.files[tmp]]
       IN  disk' = [disk EXCEPT !.files = IF tmp = disk.path THEN moved
                                          ELSE [moved EXCEPT ![tmp] = NoFile],
                                !.step = "idle"]
    /\ UNCHANGED <<traderVars, gate, window, order, paper, bpaper, basis, norm, sig, port, request, repair, dca_init, trigger, feed, pnl, pine_eval, paper_test, seed_run, funds>>

\* an exception inside the try block (swallowed by "except: pass"), or the
\* process killed and started again: the write is abandoned where it stands
WriteAbandon ==
    /\ disk.step \in {"dump", "replace"}
    /\ disk' = [disk EXCEPT !.step = "idle"]
    /\ UNCHANGED <<traderVars, gate, window, order, paper, bpaper, basis, norm, sig, port, request, repair, dca_init, trigger, feed, pnl, pine_eval, paper_test, seed_run, funds>>

SpecDisk == InitGate /\ [][WriteOpen \/ WriteDump \/ WriteReplace \/ WriteAbandon]_vars

\* C15: at every point of every write, abandoned ones included, each target
\* file holds a complete document or was never written, and the target of the
\* write under way holds what it held before the write or the whole new document.
C15_AtomicWrite ==
    /\ \A path \in Targets :
        disk.files[path] = NoFile \/ disk.files[path].chunks = Chunks
    /\ disk.path \in Targets =>
        \/ disk.files[disk.path] = disk.prev
        \/ disk.files[disk.path] = [version |-> disk.doc, chunks |-> Chunks]

\* a write abandoned half way over a target that holds an earlier document
C15_Witness ==
    /\ disk.step = "idle" /\ disk.path \in Targets
    /\ disk.files[TmpPath(disk.path)].version = disk.doc
    /\ disk.files[TmpPath(disk.path)].chunks \in 1..Chunks - 1
    /\ disk.files[disk.path].version \in 1..disk.doc - 1
    /\ disk.files[disk.path].chunks = Chunks

\* ------------------------------------- calculate_cost_basis, on its own
\* One asset's filled orders as get_orders returns them, oldest first (created_at
\* is the position in the list), and the quantity get_holdings reports: what
\* the buys have brought in less what the sells have taken out. A sell can leave
\* part of the position: the HMAC driver rounds the quantity down to step_size.
HistoryOrders == [side : {"buy", "sell"}, quantity : {1, 2}, price : {900, 1200}]

RECURSIVE NetQuantity(_)
NetQuantity(orders) ==
    IF orders = <<>> THEN 0
    ELSE LET last == orders[Len(orders)]
         IN  NetQuantity(SubSeq(orders, 1, Len(orders) - 1))
                 + (IF last.side = "buy" THEN last.quantity ELSE -last.quantity)

\* histories an account can have: nothing is sold that is not held
Histories ==
    {h \in UNION {[1..n -> HistoryOrders] : n \in 1..MaxLen} :
        \A i \in 1..Len(h) : NetQuantity(SubSeq(h, 1, i)) >= 0}

\* order["side"] == "buy" and order["state"] == "filled", in created_at order
FilledBuys(orders) == SelectSeq(orders, LAMBDA o : o.side = "buy")

\* the orders created after the most recent sell (all of them when there is none)
SinceLastSell(orders) ==
    LET sells == {i \in 1..Len(orders) : orders[i].side = "sell"}
        last_sell == IF sells = {} THEN 0 ELSE CHOOSE i \in sells : \A j \in sells : j <= i
    IN  SubSeq(orders, last_sell + 1, Len(orders))

\* one evaluation for an asset that is held (a run evaluates once)
EvalBasis ==
    /\ basis = NotRun
    /\ \E orders \in Histories :
        /\ NetQuantity(orders) > 0
        /\ basis' = [done |-> TRUE, orders |-> orders, quantity |-> NetQuantity(orders),
                     cost_basis |-> AssetCostBasis(FilledBuys(orders), NetQuantity(orders))]
    /\ UNCHANGED <<traderVars, gate, window, order, paper, bpaper, disk, norm, sig, port, request, repair, dca_init, trigger, feed, pnl, pine_eval, paper_test, seed_run, funds>>

SpecBasis == InitGate /\ [][EvalBasis]_vars

\* C16 as stated: the cost basis is what the held quantity and the buys
\* created after the asset's most recent sell give, whatever was bought at or
\* before that sell.
C16_SinceLastSell ==
    basis.done =>
        basis.cost_basis = AssetCostBasis(FilledBuys(SinceLastSell(basis.orders)),
                                          basis.quantity)

\* C16: when the buys created after the asset's most recent sell cover the held
\* quantity (as they do when that sell closed the position), the cost basis is
\* what the held quantity and those buys give, whatever was bought at or before
\* the sell; and evaluating again on the same holdings and orders gives the same.
C16_SinceLastSellCovered ==
    basis.done =>
        LET recent == FilledBuys(SinceLastSell(basis.orders))
            covered == SumSeq([i \in 1..Len(recent) |-> recent[i].quantity])
                           >= basis.quantity
        IN  /\ covered => basis.cost_basis = AssetCostBasis(recent, basis.quantity)
            /\ basis.cost_basis = AssetCostBasis(FilledBuys(basis.orders), basis.quantity)

\* a buy at one price, the position sold whole, then a buy at another price
C16_Witness ==
    /\ basis.done /\ Len(basis.orders) = 3
    /\ basis.orders[1].side = "buy" /\ basis.orders[2].side = "sell"
    /\ basis.orders[3].side = "buy"
    /\ basis.orders[1].quantity = basis.orders[2].quantity
    /\ basis.orders[1].price # basis.orders[3].price
    /\ basis.cost_basis = basis.orders[3].price

\* ----------------------------------------- the Broker Port methods, on their own
\* What the underlying request gave. Ed25519 path (make_api_request): None after
\* a network failure, the error body of an HTTP error, a body whose "results"
\* is empty or whose first result lacks a usable ask or bid, or a valid body.
\* HMAC path (_request): BinanceAPIError after the retries, the text of a body
\* that is not JSON, or a valid body. cached: a last good quote is on record.
PortMethods == {"get_account", "get_holdings", "get_trading_pairs", "get_orders",
                "get_price", "place_buy", "place_sell"}
PortResponses(provider) ==
    IF provider = "robinhood"
    THEN {"network_failure", "error_body", "empty_results", "malformed_result", "valid"}
    ELSE {"api_error", "not_json", "valid"}

\* what the method hands to the control loop: a value, or an exception
PortCall(provider, method, response, cached) ==
    LET value(v) == [raised |-> FALSE, value |-> v]
        raise(e) == [raised |-> TRUE, value |-> e]
        no_results == response \in {"network_failure", "error_body"}
        price_lookup ==
            IF response = "empty_results" THEN raise("IndexError")
            ELSE IF response = "malformed_result" THEN raise("KeyError")
            ELSE IF response = "valid" \/ cached THEN value("prices")
            ELSE value("no prices")
    IN  IF provider = "robinhood"
        THEN CASE method \in {"get_account", "get_holdings", "get_orders", "place_sell"} ->
                      IF response = "network_failure" THEN value("null")
                      ELSE value("response")
               [] method = "get_trading_pairs" ->
                      IF no_results THEN value("empty") ELSE value("results")
               [] method = "get_price" -> price_lookup
               [] method = "place_buy" ->
                      IF price_lookup.raised THEN price_lookup
                      ELSE IF price_lookup.value = "no prices" THEN raise("KeyError")
                      ELSE value("response")
        ELSE CASE method \in {"get_account", "get_holdings", "get_orders"} ->
                      IF response = "api_error" THEN value("empty")
                      ELSE IF response = "not_json" THEN raise("AttributeError")
                      ELSE value("results")
               [] method = "get_trading_pairs" -> value("results")
               [] method = "get_price" ->
                      IF response = "valid" \/ cached THEN value("prices")
                      ELSE value("no prices")
               [] method \in {"place_buy", "place_sell"} ->
                      IF response = "valid" THEN value("response") ELSE value("errors")

\* one call of one method (a run makes one call)
CallPort ==
    /\ port = NotRun
    /\ \E provider \in {"robinhood", "binance"}, method \in PortMethods, cached \in BOOLEAN :
        \E response \in PortResponses(provider) :
            LET out == PortCall(provider, method, response, cached)
            IN  port' = [done |-> TRUE, provider |-> provider, method |-> method,
                         response |-> response, cached |-> cached,
                         raised |-> out.raised, value |-> out.value]
    /\ UNCHANGED <<traderVars, gate, window, order, paper, bpaper, disk, basis, norm, sig, request, repair, dca_init, trigger, feed, pnl, pine_eval, paper_test, seed_run, funds>>

SpecPort == InitGate /\ [][CallPort]_vars

\* C17: whatever the underlying request gave, no Broker Port method hands an
\* exception to the control loop.
C17_NeverRaise == port.done => ~port.raised

\* C18: after every tick that ran to its end, an asset of which nothing is held
\* has cost basis 0, no triggered DCA stage and no armed trailing state.
C18_FlatIsClean ==
    (pc = "idle" /\ status_write.written) =>
        \A a \in Assets :
            broker_qty[a] = 0 =>
                /\ cost_basis[a] = 0
                /\ Len(dca_levels_triggered[a]) = 0
                /\ ~trailing_pm[a].active

\* ------------------------------------------- _normalize_symbol, on its own
\* A symbol is the sequence of its characters.
USDT == <<"U", "S", "D", "T">>
USD == <<"U", "S", "D">>
\* known_quotes after self.default_quote
known_quotes == <<USDT, <<"U", "S", "D", "C">>, <<"B", "U", "S", "D">>, <<"B", "T", "C">>,
                  <<"E", "T", "H">>, <<"B", "N", "B">>, USD>>

\* if quote == "USD": quote = "USDT"
QuoteAliasNone(quote) == quote
QuoteAlias(quote) == IF quote = USD THEN USDT ELSE quote

\* raw.endswith(q) and len(raw) > len(q)
EndsWith(raw, q) == Len(raw) > Len(q) /\ SubSeq(raw, Len(raw) - Len(q) + 1, Len(raw)) = q

NormalizeSymbol(symbol, default_quote) ==
    LET upper == [c \in {"b", "t", "c", "e", "h", "w", "u", "s", "d", "r"} |->
                    CASE c = "b" -> "B" [] c = "t" -> "T" [] c = "c" -> "C" [] c = "e" -> "E"
                      [] c = "h" -> "H" [] c = "w" -> "W" [] c = "u" -> "U" [] c = "s" -> "S"
                      [] c = "d" -> "D" [] c = "r" -> "R"]
        Upper(str) == [i \in 1..Len(str) |->
                          IF str[i] \in DOMAIN upper THEN upper[str[i]] ELSE str[i]]
        Strip(str) ==
            LET inked == {i \in 1..Len(str) : str[i] # " "}
            IN  IF inked = {} THEN <<>>
                ELSE SubSeq(str, CHOOSE i \in inked : \A j \in inked : i <= j,
                                 CHOOSE i \in inked : \A j \in inked : j <= i)
        raw == Upper(Strip(symbol))
        Has(c) == \E i \in 1..Len(raw) : raw[i] = c
        Split(c) ==
            LET at == CHOOSE i \in 1..Len(raw) : raw[i] = c /\ \A j \in 1..i - 1 : raw[j] # c
            IN  [base |-> SubSeq(raw, 1, at - 1), quote |-> SubSeq(raw, at + 1, Len(raw))]
        quotes == <<default_quote>> \o known_quotes
        found == {k \in 1..Len(quotes) : EndsWith(raw, quotes[k])}
        bare == IF found = {} THEN [base |-> raw, quote |-> <<>>]
                ELSE LET q == quotes[CHOOSE k \in found : \A j \in found : k <= j]
                     IN  [base |-> SubSeq(raw, 1, Len(raw) - Len(q)), quote |-> q]
        parts == IF Has("-") THEN Split("-")
                 ELSE IF Has("_") THEN Split("_")
                 ELSE IF Has("/") THEN Split("/")
                 ELSE bare
        base == Strip(parts.base)
        quote == Strip(parts.quote)
    IN  IF raw = <<>> THEN Raised("Symbol is required.")
        ELSE IF base = <<>> THEN Raised("Invalid symbol format")
        ELSE [ok |-> TRUE,
              value |-> base \o QuoteAlias(IF quote = <<>> THEN default_quote ELSE quote)]

\* spellings: a base, alone or followed by a separator and a quote, or by the
\* quote directly; the default quote is USDT
SymbolBases == {<<"B", "T", "C">>, <<"b", "t", "c">>, <<" ", "B", "t", "c">>,
                <<"E", "T", "H">>, <<"W", "B", "T", "C">>, <<>>}
SymbolQuotes == {<<>>, USDT, <<"u", "s", "d", "t">>, USD, <<"u", "s", "d", " ">>,
                 <<"E", "U", "R">>, <<"B", "T", "C">>}

\* one evaluation, and one more on its result (a run evaluates one symbol)
EvalNorm ==
    /\ norm = NotRun
    /\ \E base \in SymbolBases, sep \in {<<>>, <<"-">>, <<"_">>, <<"/">>},
          quote \in SymbolQuotes :
        LET out == NormalizeSymbol(base \o sep \o quote, USDT)
        IN  norm' = [done |-> TRUE, base |-> base, sep |-> sep, quote |-> quote,
                     ok |-> out.ok,
                     value |-> IF out.ok THEN out.value ELSE <<>>,
                     again |-> IF out.ok THEN NormalizeSymbol(out.value, USDT)
                               ELSE out]
    /\ UNCHANGED <<traderVars, gate, window, order, paper, bpaper, disk, basis, sig, port, request, repair, dca_init, trigger, feed, pnl, pine_eval, paper_test, seed_run, funds>>

SpecNorm == InitGate /\ [][EvalNorm]_vars

recv_window == 5000

\* the keys that occur, in the order sorted() puts them
KeyOrder == <<"limit", "recvWindow", "side", "symbol", "timestamp">>

\* req_params[key] = value: an existing key keeps its place
DictSet(dict, key, value) ==
    IF \E i \in 1..Len(dict) : dict[i][1] = key
    THEN [i \in 1..Len(dict) |-> IF dict[i][1] = key THEN <<key, value>> ELSE dict[i]]
    ELSE Append(dict, <<key, value>>)

UnsortedItems(items) == items

\* sorted(params.items())
SortedItems(items) ==
    LET Rank(key) == CHOOSE k \in 1..Len(KeyOrder) : KeyOrder[k] = key
        present == {k \in 1..Len(KeyOrder) : \E i \in 1..Len(items) : items[i][1] = KeyOrder[k]}
        RECURSIVE Take(_)
        Take(left) ==
            IF left = {} THEN <<>>
            ELSE LET k == CHOOSE m \in left : \A n \in left : m <= n
                     i == CHOOSE j \in 1..Len(items) : Rank(items[j][1]) = k
                 IN  <<items[i]>> \o Take(left \ {k})
    IN  Take(present)

\* urlencode(pairs, doseq=True): str() of each value, key=value joined by '&'
UrlEncode(pairs) ==
    LET Str(key, value) ==
            IF key \in {"limit", "recvWindow", "timestamp"} THEN ToString(value) ELSE value
        RECURSIVE Join(_)
        Join(k) ==
            IF k > Len(pairs) THEN ""
            ELSE (IF k > 1 THEN "&" ELSE "")
                     \o pairs[k][1] \o "=" \o Str(pairs[k][1], pairs[k][2]) \o Join(k + 1)
    IN  Join(1)

\* hmac.new(key, msg, hashlib.sha256).hexdigest()
Hmac(key, msg) == "hmac-sha256(" \o key \o "," \o msg \o ")"

SignParams(api_secret, params) == Hmac(api_secret, UrlEncode(SortedItems(params)))

\* one pass of the retry loop up to the request being sent (the clock is read in
\* a unit that fits 32 bits)
BuildRequest(params, signed, api_key, api_secret, timestamp_ms) ==
    IF signed
    THEN LET stamped == DictSet(DictSet(params, "timestamp", timestamp_ms),
                                "recvWindow", recv_window)
         IN  [params  |-> DictSet(stamped, "signature", SignParams(api_secret, stamped)),
              headers |-> [h \in {"X-MBX-APIKEY"} |-> api_key]]
    ELSE [params |-> params, headers |-> <<>>]

\* what the callers pass: order and history parameters, in any insertion order
CallerParams ==
    LET given == [symbol |-> "BTCUSDT", side |-> "BUY", limit |-> 50]
        keys  == {"symbol", "side", "limit"}
    IN  {[i \in 1..Len(order_of) |-> <<order_of[i], given[order_of[i]]>>] :
            order_of \in {q \in UNION {[1..n -> keys] : n \in 0..3} :
                             \A i, j \in 1..Len(q) : i # j => q[i] # q[j]}}

EvalSign ==
    /\ sig = NotRun
    /\ \E params \in CallerParams, signed \in BOOLEAN, public_only \in BOOLEAN,
          api_secret \in {"s1", "s2"}, attempts \in 1..(MaxRetries + 1) :
        \E clock \in [1..attempts -> {1700000000, 1700000001}] :
            sig' = [done |-> TRUE, params |-> params, signed |-> signed,
                    api_key |-> "key", api_secret |-> api_secret,
                    raised |-> signed /\ public_only,
                    sent |-> IF signed /\ public_only THEN <<>>
                             ELSE [a \in 1..attempts |->
                                      BuildRequest(params, signed, "key", api_secret, clock[a])]]
    /\ UNCHANGED <<traderVars, gate, window, order, paper, bpaper, disk, basis, norm, port, request, repair, dca_init, trigger, feed, pnl, pine_eval, paper_test, seed_run, funds>>

SpecSign == InitGate /\ [][EvalSign]_vars

\* C20: every signed request sent carries timestamp, recvWindow, the key header
\* and a signature that is the HMAC under the secret of the url-encoded
\* parameters without the signature, in ascending key order; two attempts with
\* the same timestamp carry the same signature.
C20_SignedRequest ==
    (sig.done /\ sig.signed) =>
        /\ \A a \in 1..Len(sig.sent) :
            LET req    == sig.sent[a]
                Get(key) == {req.params[i][2] : i \in {j \in 1..Len(req.params) : req.params[j][1] = key}}
                others == {i \in 1..Len(req.params) : req.params[i][1] # "signature"}
                Before(x, y) == \E k, m \in 1..Len(KeyOrder) :
                                    k < m /\ KeyOrder[k] = x /\ KeyOrder[m] = y
            IN  /\ Cardinality(Get("timestamp")) = 1
                /\ Get("recvWindow") = {recv_window}
                /\ req.headers["X-MBX-APIKEY"] = sig.api_key
                /\ \E perm \in [1..Cardinality(others) -> others] :
                    /\ \A i, j \in DOMAIN perm : i < j =>
                           Before(req.params[perm[i]][1], req.params[perm[j]][1])
                    /\ Get("signature") =
                           {Hmac(sig.api_secret,
                                 UrlEncode([i \in DOMAIN perm |-> req.params[perm[i]]]))}
                /\ \A i \in 1..Len(sig.params) : \E j \in others : req.params[j] = sig.params[i]
        /\ \A a, b \in 1..Len(sig.sent) :
            LET Stamp(r) == {r.params[i] : i \in {j \in 1..Len(r.params) :
                                                    r.params[j][1] \in {"timestamp", "signature"}}}
            IN  (\E p \in Stamp(sig.sent[a]), q \in Stamp(sig.sent[b]) :
                    p[1] = "timestamp" /\ q[1] = "timestamp" /\ p[2] = q[2])
                => (\A p \in Stamp(sig.sent[a]), q \in Stamp(sig.sent[b]) :
                       (p[1] = "signature" /\ q[1] = "signature") => p[2] = q[2])

\* a signed request whose caller gave symbol before limit was sent twice with
\* the same timestamp
C20_Witness ==
    /\ sig.done /\ sig.signed /\ Len(sig.sent) = 2
    /\ sig.params = <<<<"symbol", "BTCUSDT">>, <<"limit", 50>>>>
    /\ sig.sent[1].params = sig.sent[2].params
    /\ sig.sent[1].params[5] =
           <<"signature",
             "hmac-sha256(s1,limit=50&recvWindow=5000&symbol=BTCUSDT&timestamp=1700000000)">>

(***************************************************************************)
(* BinanceExchangeClient._request: the retry loop                          *)
(* A response is the HTTP status with the error code of its body; status 0 *)
(* stands for a requests.RequestException.  The forced _sync_time is a     *)
(* request of its own and can fail.  The routine _sync_time at the top of  *)
(* a signed pass is left out.                                              *)
(***************************************************************************)
ServerResponses ==
    {[status |-> 0, code |-> None], [status |-> 200, code |-> None],
     [status |-> 418, code |-> None], [status |-> 429, code |-> None],
     [status |-> 400, code |-> -1021], [status |-> 401, code |-> -1022],
     [status |-> 400, code |-> -2010], [status |-> 500, code |-> None]}

RetryLeftAlways(attempt) == TRUE

\* if attempt < self.max_retries
RetryLeft(attempt) == attempt < max_retries

\* one pass of "for attempt in range(self.max_retries + 1)"
SendRequest ==
    /\ request.outcome = "running"
    /\ request.attempt <= max_retries
    /\ \E resp \in ServerResponses, sync_ok \in BOOLEAN :
        LET sent == [request EXCEPT !.log = Append(@, resp), !.attempt = @ + 1]
            Ends(how) == [sent EXCEPT !.outcome = how]
        IN  request' =
                IF resp.status = 0
                THEN IF RetryLeft(request.attempt) THEN sent ELSE Ends("BinanceAPIError")
                ELSE IF resp.status \in {418, 429}
                THEN IF RetryLeft(request.attempt) THEN sent ELSE Ends("BinanceRateLimitError")
                ELSE IF resp.status >= 400
                THEN IF resp.code \in {-1021, -1022}
                     THEN IF ~request.resynced
                          THEN IF sync_ok
                               THEN [sent EXCEPT !.resynced = TRUE, !.syncs = @ + 1]
                               ELSE [Ends("BinanceAPIError") EXCEPT !.syncs = @ + 1]
                          ELSE Ends("BinanceTimestampError")
                     ELSE Ends("BinanceAPIError")
                ELSE Ends("returned")
    /\ UNCHANGED <<traderVars, gate, window, order, paper, bpaper, disk, basis, norm, sig, port,
                   repair, dca_init, trigger, feed, pnl, pine_eval, paper_test, seed_run, funds>>

\* the statement after the loop
LoopEnds ==
    /\ request.outcome = "running"
    /\ request.attempt > max_retries
    /\ request' = [request EXCEPT !.outcome = "BinanceAPIError"]
    /\ UNCHANGED <<traderVars, gate, window, order, paper, bpaper, disk, basis, norm, sig, port,
                   repair, dca_init, trigger, feed, pnl, pine_eval, paper_test, seed_run, funds>>

\* the loop runs on: its sleeps are finite
SpecRequest ==
    InitGate /\ [][SendRequest \/ LoopEnds]_vars /\ WF_vars(SendRequest \/ LoopEnds)

\* C21: one _request call sends the request at most 1 + 4 times and comes to an
\* end with a result or a failure; when the last of the 1 + 4 sends is answered
\* by HTTP 418 or 429, the failure is BinanceRateLimitError.
C21_BoundedRetries ==
    /\ [](/\ Len(request.log) <= 1 + 4
          /\ request.outcome \in {"running", "returned", "BinanceAPIError",
                              "BinanceRateLimitError", "BinanceTimestampError"}
          /\ (/\ request.outcome # "running"
              /\ Len(request.log) = 1 + 4
              /\ request.log[1 + 4].status \in {418, 429}) => request.outcome = "BinanceRateLimitError")
    /\ <>(request.outcome # "running")

\* four rate-limited sends were retried and the fifth ended the call
C21_Witness ==
    /\ Len(request.log) = 5
    /\ \A i \in 1..5 : request.log[i].status \in {418, 429}
    /\ request.outcome = "BinanceRateLimitError"

\* C22: a response with code -1021 or -1022 makes _request force one re-sync
\* and send the request again, at most once per call; when such a response
\* comes again after the re-sync the call fails with BinanceTimestampError.
C22_ResyncOnce ==
    LET skewed == {i \in 1..Len(request.log) : request.log[i].code \in {-1021, -1022}}
    IN  /\ request.syncs <= 1
        /\ (request.outcome # "running" /\ skewed # {}) =>
            LET first == CHOOSE i \in skewed : \A j \in skewed : i <= j
            IN  /\ request.syncs = 1
                /\ Len(request.log) > first
                /\ Cardinality(skewed) > 1 => request.outcome = "BinanceTimestampError"

(***************************************************************************)
(* place_buy_order on the Ed25519 path: the precision repair loop          *)
(* (pt_trader.py and brokers/robinhood.py hold the same loop).  Quantities *)
(* are integers in units of 1e-8.  A response is an order ("ok"), None     *)
(* ("none", the request failed) or a list of errors; a precision error     *)
(* carries the fractional digits of its "nearest <value>".                 *)
(***************************************************************************)
buy_max_retries == 5
quantity_decimals == 8

RoundToKeep(quantity, decimal_places) == quantity

\* round(asset_quantity, decimal_places)
RoundTo(quantity, decimal_places) ==
    LET RECURSIVE Ten(_)
        Ten(n) == IF n <= 0 THEN 1 ELSE 10 * Ten(n - 1)
        unit == Ten(quantity_decimals - decimal_places)
        down == quantity - (quantity % unit)
        twice == 2 * (quantity % unit)
    IN  IF twice < unit THEN down
        ELSE IF twice > unit THEN down + unit
        ELSE IF (down \div unit) % 2 = 0 THEN down ELSE down + unit

\* len(nearest_value.split(".")[1].rstrip("0"))
DecimalPlaces(fraction) ==
    LET kept == {i \in 1..Len(fraction) : fraction[i] # 0}
    IN  IF kept = {} THEN 0 ELSE CHOOSE i \in kept : \A j \in kept : j <= i

OrderErrors ==
    LET precision(fraction) == [detail |-> "has too much precision", nearest |-> fraction]
        minimum == [detail |-> "must be greater than or equal to", nearest |-> <<>>]
        other == [detail |-> "insufficient buying power", nearest |-> <<>>]
        one == {precision(<<0, 0, 1, 2, 3, 4, 0, 0>>), precision(<<0, 0, 1, 2>>), minimum, other}
    IN  {<<e>> : e \in one} \cup {<<other, e>> : e \in one \ {other}}

\* for error in response["errors"]: the first error the loop acts on
FirstActedOn(errors) ==
    LET acted == {i \in 1..Len(errors) :
                     errors[i].detail \in {"has too much precision",
                                           "must be greater than or equal to"}}
    IN  IF acted = {} THEN [detail |-> "", nearest |-> <<>>]
        ELSE errors[CHOOSE i \in acted : \A j \in acted : i <= j]

\* get_price and asset_quantity = amount_in_usd / current_price; a failed lookup
\* raises in pt_trader.py and returns None in brokers/robinhood.py
StartBuy ==
    /\ repair = NotRun
    /\ \E asset_quantity \in {123456, 123450, 7}, price_ok \in BOOLEAN,
          driver \in {"pt_trader", "robinhood"} :
        repair' = [done |-> TRUE, driver |-> driver, asset_quantity |-> asset_quantity,
                   log |-> <<>>,
                   outcome |-> IF price_ok THEN "running"
                               ELSE IF driver = "pt_trader" THEN "raised" ELSE "null"]
    /\ UNCHANGED <<traderVars, gate, window, order, paper, bpaper, disk, basis, norm, sig, port,
                   request, dca_init, trigger, feed, pnl, pine_eval, paper_test, seed_run, funds>>

\* one pass of the loop: submit, return on success, act on the errors
SubmitBuy ==
    /\ repair # NotRun
    /\ repair.outcome = "running"
    /\ \E response \in {[status |-> "ok", errors |-> <<>>], [status |-> "none", errors |-> <<>>]}
                          \cup {[status |-> "errors", errors |-> e] : e \in OrderErrors} :
        LET submitted == RoundTo(repair.asset_quantity, quantity_decimals)
            logged == [repair EXCEPT !.log = Append(@, [asset_quantity |-> submitted,
                                                         response |-> response])]
            last == Len(logged.log) >= buy_max_retries
            acted == FirstActedOn(response.errors)
        IN  repair' =
                IF response.status = "ok" THEN [logged EXCEPT !.outcome = "response"]
                ELSE IF response.status = "none"
                THEN [logged EXCEPT !.outcome = IF last THEN "null" ELSE "running"]
                ELSE IF acted.detail = "must be greater than or equal to"
                THEN [logged EXCEPT !.outcome = "null"]
                ELSE [logged EXCEPT
                         !.asset_quantity =
                             IF acted.detail = "has too much precision"
                             THEN RoundTo(@, DecimalPlaces(acted.nearest)) ELSE @,
                         !.outcome = IF last THEN "null" ELSE "running"]
    /\ UNCHANGED <<traderVars, gate, window, order, paper, bpaper, disk, basis, norm, sig, port,
                   request, dca_init, trigger, feed, pnl, pine_eval, paper_test, seed_run, funds>>

SpecRepair == InitGate /\ [][StartBuy \/ SubmitBuy]_vars

\* C23: one place_buy call submits the order at most 5 times; after a response
\* whose error says 'has too much precision' the next submission carries the
\* quantity rounded to the number of decimal places of its 'nearest' value
\* (trailing zeros not counted); a response whose error says 'must be greater
\* than or equal to' is the last submission and the result is null.  Of several
\* errors in one response the first of these two kinds counts.
C23_PrecisionRepair ==
    repair # NotRun =>
        /\ Len(repair.log) <= 5
        /\ \A i \in 1..Len(repair.log) :
            LET told == FirstActedOn(repair.log[i].response.errors)
                places == IF told.nearest = <<0, 0, 1, 2, 3, 4, 0, 0>> THEN 6
                          ELSE IF told.nearest = <<0, 0, 1, 2>> THEN 4 ELSE 8
                unit == IF places = 6 THEN 100 ELSE IF places = 4 THEN 10000 ELSE 1
            IN  /\ (told.detail = "has too much precision" /\ i < Len(repair.log)) =>
                    /\ repair.log[i + 1].asset_quantity % unit = 0
                    /\ 2 * (repair.log[i + 1].asset_quantity - repair.log[i].asset_quantity) <= unit
                    /\ 2 * (repair.log[i].asset_quantity - repair.log[i + 1].asset_quantity) <= unit
                /\ (told.detail = "has too much precision" /\ i < 5) =>
                    (i < Len(repair.log) \/ repair.outcome = "running")
                /\ told.detail = "must be greater than or equal to" =>
                    (i = Len(repair.log) /\ repair.outcome = "null")

\* 0.00123456 was refused with nearest 0.00123400 and sent again with six
\* places as 0.00123500, refused with nearest 0.0012 and filled on the third
\* submission as 0.00120000
C23_Witness ==
    /\ repair # NotRun
    /\ Len(repair.log) = 3
    /\ repair.log[1].asset_quantity = 123456
    /\ repair.log[2].asset_quantity = 123500
    /\ repair.log[3].asset_quantity = 120000
    /\ repair.outcome = "response"

\* C24: a step in which a trailing-PM or Pine exit was ordered and the sell did
\* not complete (the asset is still held at the exchange) leaves the asset's
\* trailing state, its DCA timestamp list and its last_sell_timestamp unchanged.
C24_FailedExitNoAction ==
    [][\A a \in Assets :
          (/\ Len(tick_log') = Len(tick_log) + 1
           /\ LET e == tick_log'[Len(tick_log')]
              IN  /\ e.asset = a
                  /\ IF e.kind = "tpm" THEN e.sell ELSE e.kind = "pine_sell"
           /\ broker_qty[a] > 0
           /\ broker_qty'[a] = broker_qty[a])
          => /\ trailing_pm'[a] = trailing_pm[a]
             /\ dca_buy_ts'[a] = dca_buy_ts[a]
             /\ dca_last_sell_ts'[a] = dca_last_sell_ts[a]]_vars

\* C25: an asset whose trailing state is ARMED has its line at or above
\* avg_cost_basis * (1 + 5 %) when no DCA stage is recorded for it and
\* avg_cost_basis * (1 + 2.5 %) otherwise, for its current cost basis (the line
\* is kept times 1000, percentages in tenths of a percent).
C25_ArmedLineAboveBase ==
    \A a \in Assets :
        trailing_pm[a].active =>
            trailing_pm[a].line >=
                cost_basis[a] * (1000 + (IF dca_levels_triggered[a] = <<>> THEN 50 ELSE 25))

\* an armed line above its base after DCA stages, and an armed line with none
C25_Witness ==
    /\ \E a \in Assets :
        /\ trailing_pm[a].active /\ dca_levels_triggered[a] # <<>>
        /\ trailing_pm[a].line > cost_basis[a] * 1025
    /\ \E a \in Assets :
        /\ trailing_pm[a].active /\ dca_levels_triggered[a] = <<>>
        /\ trailing_pm[a].line = cost_basis[a] * 1050

\* C26: every evaluation of an asset whose trailing state was not ARMED arms it
\* exactly when the bid is at or above the base line of the asset's current
\* cost basis and DCA count, with the peak set to the bid, and orders no sell;
\* otherwise it leaves the state DISARMED with its line on that base line
\* (unless a DCA buy of the same iteration clears the state).
C26_DisarmedPinnedArmsOnce ==
    [][\A a \in Assets :
          (/\ Len(tick_log') > Len(tick_log)
           /\ tick_log'[Len(tick_log) + 1].kind = "tpm"
           /\ tick_log'[Len(tick_log) + 1].asset = a
           /\ ~trailing_pm[a].active)
          => LET e == tick_log'[Len(tick_log) + 1]
                 base == cost_basis[a] * (1000 + (IF dca_levels_triggered[a] = <<>> THEN 50
                                                                                    ELSE 25))
             IN  /\ e.active <=> (prices[a].bid * 1000 >= base)
                 /\ e.active => /\ ~e.sell
                                /\ trailing_pm'[a].active
                                /\ trailing_pm'[a].peak = prices[a].bid
                 /\ (~e.active /\ trailing_pm'[a].present) =>
                        (~trailing_pm'[a].active /\ trailing_pm'[a].line = base)]_vars

\* in one tick a position with DCA stages stayed DISARMED on its 2.5 % line and
\* another was armed at its bid
C26_Witness ==
    /\ \E a \in Assets :
        /\ trailing_pm[a].present /\ ~trailing_pm[a].active
        /\ dca_levels_triggered[a] # <<>>
        /\ trailing_pm[a].line = cost_basis[a] * 1025
    /\ \E i \in 1..Len(tick_log) :
        /\ tick_log[i].kind = "tpm"
        /\ tick_log[i].active /\ ~tick_log[i].was_above /\ ~tick_log[i].sell
        /\ trailing_pm[tick_log[i].asset].peak = prices[tick_log[i].asset].bid

(***************************************************************************)
(* The DCA trigger of manage_trades on its own: hard_hit or neural_hit for *)
(* a stage, a buy price, a cost basis and the level long_dca_signal.txt    *)
(* holds (any integer).                                                     *)
(***************************************************************************)
TriggerAsks == {1010, 1000, 999, 976, 975, 974, 950, 900, 800, 700, 600, 501, 500, 499}

EvalTrigger ==
    /\ trigger = NotRun
    /\ \E current_stage \in 0..MaxStage, ask \in TriggerAsks, avg_cost_basis \in {0, 1000},
          neural_level_now \in 0..MaxSignal :
        trigger' = [done |-> TRUE, current_stage |-> current_stage, ask |-> ask,
                    avg_cost_basis |-> avg_cost_basis, neural_level_now |-> neural_level_now,
                    hard_hit |-> HardHit(ask, avg_cost_basis, current_stage),
                    neural_hit |-> NeuralHit(ask, avg_cost_basis, current_stage,
                                             neural_level_now)]
    /\ UNCHANGED <<traderVars, gate, window, order, paper, bpaper, disk, basis, norm, sig, port,
                   request, repair, dca_init, feed, pnl, pine_eval, paper_test, seed_run, funds>>

SpecTrigger == InitGate /\ [][EvalTrigger]_vars

\* C27: at stage s the trigger fires iff buy_pnl <= ladder[min(s, 6)] with ladder
\* -2.5, -5, -10, -20, -30, -40, -50 percent, or s <= 3 and long_level >= s + 4
\* and buy_pnl < 0; the neural condition never holds at stage 4 or later or at a
\* buy_pnl that is not negative.  (buy_pnl is 0 without a cost basis and
\* (ask - cost) / cost otherwise; it is compared in tenths of a percent.)
C27_DcaTrigger ==
    trigger.done =>
        LET s == trigger.current_stage
            ladder == <<-25, -50, -100, -200, -300, -400, -500>>
            cost == trigger.avg_cost_basis
            \* buy_pnl <= level and buy_pnl < 0, cleared of the division
            PnlAtMost(level) == IF cost > 0 THEN (trigger.ask - cost) * 1000 <= level * cost
                                ELSE 0 <= level
            pnl_negative == cost > 0 /\ trigger.ask < cost
            hard == PnlAtMost(ladder[(IF s < 6 THEN s ELSE 6) + 1])
            neural == s <= 3 /\ trigger.neural_level_now >= s + 4 /\ pnl_negative
        IN  /\ (trigger.hard_hit \/ trigger.neural_hit) <=> (hard \/ neural)
            /\ trigger.neural_hit => (s < 4 /\ pnl_negative)

\* stage 8 fired on the repeated -50 % level; the level 9 was not looked at
C27_Witness ==
    /\ trigger.done /\ trigger.current_stage = 8 /\ trigger.ask = 500
    /\ trigger.avg_cost_basis = 1000 /\ trigger.neural_level_now = 9
    /\ trigger.hard_hit /\ ~trigger.neural_hit

\* C28: a held-loop iteration that comes to the DCA section ends in one of two
\* ways.  The DCA buy succeeded: stage s = the number of recorded stages is
\* appended, the time of the buy is recorded (one more DCA buy counts in the
\* 24 h window) and the trailing state is cleared.  Or it did not (no trigger,
\* skipped for the rate limit or for funds, or the buy failed): the recorded
\* stages and the number of DCA buys counted in the 24 h window are unchanged,
\* no timestamp is added, and the trailing state is as the trailing block of
\* the iteration left it.
C28_OnlySuccessChangesDca ==
    [][\A a \in Assets :
          (/\ Len(tick_log') > Len(tick_log)
           /\ tick_log'[Len(tick_log')].kind = "dca"
           /\ tick_log'[Len(tick_log')].asset = a)
          => LET e == tick_log'[Len(tick_log')]
                 Count(ts_list) == DcaWindowCount(ts_list, dca_last_sell_ts[a], now)
             IN  IF e.filled
                 THEN /\ dca_levels_triggered'[a] =
                             Append(dca_levels_triggered[a], Len(dca_levels_triggered[a]))
                      /\ dca_buy_ts'[a] # <<>> /\ dca_buy_ts'[a][Len(dca_buy_ts'[a])] = now
                      /\ Count(dca_buy_ts'[a]) = Count(dca_buy_ts[a]) + 1
                      /\ trailing_pm'[a] = NoTrail
                 ELSE /\ dca_levels_triggered'[a] = dca_levels_triggered[a]
                      /\ Count(dca_buy_ts'[a]) = Count(dca_buy_ts[a])
                      /\ \A i \in 1..Len(dca_buy_ts'[a]) :
                             \E j \in 1..Len(dca_buy_ts[a]) : dca_buy_ts[a][j] = dca_buy_ts'[a][i]
                      /\ trailing_pm'[a] = TrailKept(a)
                      /\ dca_last_sell_ts'[a] = dca_last_sell_ts[a]]_vars

\* with two DCA buys recorded in the window, a DCA triggered by the -10 % level
\* of stage 2 was skipped for the rate limit although the funds were there
C28_Witness ==
    \E i \in 1..Len(tick_log) :
        /\ tick_log[i].kind = "dca"
        /\ ~tick_log[i].placed /\ tick_log[i].in_window >= 2
        /\ tick_log[i].amount <= buying_power
        /\ tick_log[i].before = <<0, 1>> /\ tick_log[i].after = <<0, 1>>
        /\ dca_levels_triggered[tick_log[i].asset] = <<0, 1>>
        /\ Len(dca_buy_ts[tick_log[i].asset]) = 2
        /\ (prices[tick_log[i].asset].ask - cost_basis[tick_log[i].asset]) * 1000
               <= -100 * cost_basis[tick_log[i].asset]
        /\ prices[tick_log[i].asset].ask > 0

(***************************************************************************)
(* initialize_dca_levels for one held asset, on the full order list        *)
(* get_orders returns: orders of either side in any state; created_at is   *)
(* the position in the list (no two orders share a time).                  *)
(***************************************************************************)
LevelOrders == [side : {"buy", "sell"}, state : {"filled", "canceled"}]

InitialStagesAllBuys(orders) ==
    LET filled == {i \in 1..Len(orders) : orders[i].state = "filled"}
        sells == {i \in filled : orders[i].side = "sell"}
        relevant == {i \in filled : orders[i].side = "buy" /\ \A j \in sells : i > j}
    IN  IF filled = {} THEN [skipped |-> TRUE, stages |-> <<>>]
        ELSE [skipped |-> FALSE, stages |-> StageRange(Cardinality(relevant))]

\* the list the loop body stores in dca_levels_triggered[symbol]; skipped: the
\* asset gets no entry
InitialStages(orders) ==
    LET filled_orders == {i \in 1..Len(orders) : orders[i].state = "filled"}
        sells == {i \in filled_orders : orders[i].side = "sell"}
        most_recent_sell_time == IF sells = {} THEN 0
                                 ELSE CHOOSE i \in sells : \A j \in sells : j <= i
        relevant_buy_orders == {i \in filled_orders : /\ orders[i].side = "buy"
                                                      /\ i > most_recent_sell_time}
        first_buy_time == CHOOSE i \in relevant_buy_orders :
                              \A j \in relevant_buy_orders : i <= j
        buy_orders_after_first == {i \in relevant_buy_orders : i > first_buy_time}
    IN  IF filled_orders = {} THEN [skipped |-> TRUE, stages |-> <<>>]
        ELSE IF relevant_buy_orders = {} THEN [skipped |-> FALSE, stages |-> <<>>]
        ELSE [skipped |-> FALSE, stages |-> StageRange(Cardinality(buy_orders_after_first))]

\* one run for a held asset whose get_orders answer has results
EvalLevels ==
    /\ dca_init = NotRun
    /\ \E orders \in UNION {[1..n -> LevelOrders] : n \in 1..MaxHistory} :
        dca_init' = [done |-> TRUE, orders |-> orders,
                     skipped |-> InitialStages(orders).skipped,
                     dca_levels_triggered |-> InitialStages(orders).stages]
    /\ UNCHANGED <<traderVars, gate, window, order, paper, bpaper, disk, basis, norm, sig, port,
                   request, repair, trigger, feed, pnl, pine_eval, paper_test, seed_run, funds>>

SpecLevels == InitGate /\ [][EvalLevels]_vars

\* C29: after initialize_dca_levels the stages recorded for a held asset with
\* order history are 0, 1, ..., n - 2 where n is the number of filled buys
\* created after the most recent filled sell (all filled buys when there is
\* none), and no stage when n = 0.
C29_StagesFromHistory ==
    dca_init.done =>
        LET orders == dca_init.orders
            IsFilled(i, side) == orders[i].state = "filled" /\ orders[i].side = side
            current_trade == {i \in 1..Len(orders) :
                                 /\ IsFilled(i, "buy")
                                 /\ \A j \in 1..Len(orders) : IsFilled(j, "sell") => j < i}
            n == Cardinality(current_trade)
        IN  /\ Len(dca_init.dca_levels_triggered) = (IF n = 0 THEN 0 ELSE n - 1)
            /\ \A k \in 1..Len(dca_init.dca_levels_triggered) :
                   dca_init.dca_levels_triggered[k] = k - 1

\* a filled sell, then three buys of which one was cancelled: stage 0 recorded
C29_Witness ==
    /\ dca_init.done
    /\ dca_init.orders = <<[side |-> "sell", state |-> "filled"],
                           [side |-> "buy", state |-> "filled"],
                           [side |-> "buy", state |-> "canceled"],
                           [side |-> "buy", state |-> "filled"]>>
    /\ dca_init.dca_levels_triggered = <<0>>

\* C30: whenever a price is given and the price, rounded down to tick_size when
\* there is one, is below min_price, create_order submits no order, whatever
\* tick_size is (0 stands for a tickSize of "0" or none).
C30_BelowMinPrice ==
    (/\ order.done
     /\ order.price_in # None
     /\ (IF order.filters.tick_size > 0
         THEN (order.price_in \div order.filters.tick_size) * order.filters.tick_size
         ELSE order.price_in) < order.filters.min_price)
    => ~order.submitted

\* ------------------------------------------------ C31
\* C31: after any sequence of PaperBroker buys and sells every stored holding has
\* a quantity above the "effectively zero" bound 1e-8: a holding at or below the
\* bound is deleted, never stored as zero or as dust.
C31_NoDustHolding ==
    paper.holding.held => paper.holding.quantity > Dust

\* ------------------------------------------------ the last-good price cache
\* get_price of the three drivers for one symbol. A lookup answers a pair or
\* fails (NoQuote: no response, an error document, an exception). The Binance
\* path reads one price and uses it as ask and bid.
FeedProviders == {"robinhood", "binance", "bitvavo"}
FeedAnswers == {[ask |-> 0, bid |-> 0], [ask |-> 5, bid |-> 0], [ask |-> 5, bid |-> 4],
                [ask |-> 5, bid |-> 5], [ask |-> 7, bid |-> 6]}

\* what the driver itself takes as a failed lookup: the Binance path also takes
\* a price that is not positive as one ("if price > 0.0" else fall through)
LookupFailed(provider, response) ==
    \/ response = NoQuote
    \/ provider = "binance" /\ response.ask <= 0

\* one symbol of get_price: the pair returned (NoQuote: the symbol is in neither
\* dictionary nor in valid_symbols) and the cache afterwards
GetPriceOne(provider, response, cached) ==
    LET answer == IF response = NoQuote THEN NoQuote
                  ELSE IF provider = "binance"
                       THEN [ask |-> response.ask, bid |-> response.ask]
                       ELSE response
    IN  CASE provider = "robinhood" ->
                [returned |-> PriceOrCached(answer, cached),
                 cache |-> IF answer # NoQuote THEN answer ELSE cached]
          [] provider = "binance" ->
                IF ~LookupFailed(provider, response)
                THEN [returned |-> answer, cache |-> answer]
                ELSE [returned |-> PriceOrCached(NoQuote, cached), cache |-> cached]
          [] provider = "bitvavo" ->
                IF answer = NoQuote
                THEN [returned |-> PriceOrCached(NoQuote, cached), cache |-> cached]
                ELSE IF Usable(answer)
                     THEN [returned |-> answer, cache |-> answer]
                     ELSE [returned |-> NoQuote, cache |-> cached]

LookupPrice ==
    /\ feed.calls < MaxLookups
    /\ \E provider \in FeedProviders, response \in FeedAnswers \cup {NoQuote} :
        /\ feed.calls > 0 => provider = feed.provider
        /\ provider = "binance" => response.ask = response.bid
        /\ LET got == GetPriceOne(provider, response, feed.cache)
           IN  feed' = [provider |-> provider, cache |-> got.cache, before |-> feed.cache,
                        seen |-> IF Usable(response) THEN response ELSE feed.seen,
                        response |-> response, returned |-> got.returned,
                        calls |-> feed.calls + 1]
    /\ UNCHANGED <<traderVars, gate, window, order, paper, bpaper, disk, basis, norm, sig, port, request, repair, dca_init, trigger, pnl, pine_eval, paper_test, seed_run, funds>>

SpecPrice == InitGate /\ [][LookupPrice]_vars

RecordTrade(state, side, qty, price, avg_cost_basis, tag) ==
    LET known == side = "sell" /\ price # None /\ avg_cost_basis # None
        realized == IF known THEN (price - avg_cost_basis) * qty ELSE 0
    IN  [total_realized_profit_usd |-> state.total_realized_profit_usd + realized,
         history |-> Append(state.history,
                            [side |-> side, tag |-> tag, qty |-> qty, price |-> price,
                             avg_cost_basis |-> avg_cost_basis,
                             realized |-> [known |-> known, usd |-> realized]]),
         saves |-> IF known THEN state.saves + 1 ELSE state.saves]

\* what the callers of place_sell_order hand over as avg_cost_basis: manage_trades
\* passes cost_basis.get(symbol, 0) as it is, the paper-test harness passes None
\* for a cost basis that is not positive
SellTags == {"PINE_SELL", "TRAIL_SELL", "PAPER_TEST_EXIT"}
CallerCostBasis(tag, avg_cost_basis) ==
    IF tag = "PAPER_TEST_EXIT" /\ avg_cost_basis <= 0 THEN None ELSE avg_cost_basis

\* place_sell_order(): the trade is recorded when the order went through, at the
\* expected price (the bid of the tick)
TraderSell ==
    /\ Len(pnl.history) < MaxTrades
    /\ \E tag \in SellTags, qty \in {1, 2}, expected_price \in {4, 6},
          avg_cost_basis \in {0, 5}, accepted \in BOOLEAN :
        pnl' = IF accepted
               THEN RecordTrade(pnl, "sell", qty, expected_price,
                                CallerCostBasis(tag, avg_cost_basis), tag)
               ELSE pnl
    /\ UNCHANGED <<traderVars, gate, window, order, paper, bpaper, disk, basis, norm, sig, port, request, repair, dca_init, trigger, feed, pine_eval, paper_test, seed_run, funds>>

\* place_buy_order(): a filled buy is recorded with the cost basis of the tick
TraderBuy ==
    /\ Len(pnl.history) < MaxTrades
    /\ \E qty \in {1}, price \in {4}, avg_cost_basis \in {None, 0, 5} :
        pnl' = RecordTrade(pnl, "buy", qty, price, avg_cost_basis, "BUY")
    /\ UNCHANGED <<traderVars, gate, window, order, paper, bpaper, disk, basis, norm, sig, port, request, repair, dca_init, trigger, feed, pine_eval, paper_test, seed_run, funds>>

SpecLedger == InitGate /\ [][TraderSell \/ TraderBuy]_vars

\* C33: the ledger total is its value at the start plus the sum of
\* (price - avg_cost_basis) * qty over the recorded sells whose price and cost
\* basis are both known; a sell without a positive cost basis adds nothing.
C33_LedgerTotal ==
    pnl.total_realized_profit_usd
        = PnlStart.total_realized_profit_usd
          + SumSeq([i \in 1..Len(pnl.history) |->
                LET e == pnl.history[i]
                IN  IF e.side = "sell" /\ e.price # None /\ e.avg_cost_basis # None
                       /\ e.avg_cost_basis > 0
                    THEN (e.price - e.avg_cost_basis) * e.qty
                    ELSE 0])

\* ------------------------------------------------ C34
\* C34: a tick in which a trade fired (exit sell, DCA buy or entry buy) ends, on
\* every path through manage_trades, with the cost basis recomputed from the
\* refetched holdings, the DCA counters re-initialised and the hub status written.
C34_RecomputeAfterTrades ==
    [][(pc # "idle" /\ pc' = "idle" /\ trades_made) =>
          /\ status_write'.written
          /\ dca_levels_triggered'
                 = InitializeDcaLevels(dca_levels_triggered, broker_qty, broker_buys)
          /\ (\E a \in Assets : broker_qty[a] > 0) =>
                 cost_basis' = CalculateCostBasis(broker_qty, broker_buys)]_vars

\* ------------------------------------------------ the Pine override
\* the settings: PINE_SIGNAL_ENABLED, PINE_SIGNAL_MODE, PINE_SIGNAL_USE_EXIT,
\* PINE_SIGNAL_MAX_AGE_SECONDS (0 is a value the setting can have)
PineSettings == [pine_signal_enabled : BOOLEAN, pine_signal_mode : {"filter", "replace", "off"},
                 pine_signal_use_exit : BOOLEAN, pine_signal_max_age : {0, 300}]
\* the latest signal stored for the symbol: none, or an action with its age
\* (time.time() - ts; ts itself is positive)
NoSignal == [action |-> "", age |-> 0]
PineSignals == {NoSignal} \cup [action : {"buy", "sell", "hold", "stop"}, age : {10, 300, 301}]

\* the variant that hands over what is stored, whatever its age
GetPineSignalAnyAge(cfg, stored) ==
    IF ~cfg.pine_signal_enabled \/ cfg.pine_signal_mode = "off" THEN NoSignal
    ELSE stored

\* _get_pine_signal(): the signal handed to the loops, NoSignal for None
GetPineSignal(cfg, stored) ==
    IF ~cfg.pine_signal_enabled \/ cfg.pine_signal_mode = "off" THEN NoSignal
    ELSE IF stored = NoSignal THEN NoSignal
    ELSE IF cfg.pine_signal_max_age > 0 /\ stored.age > cfg.pine_signal_max_age THEN NoSignal
    ELSE stored

\* the held loop for one asset that has a usable price: the quantity sold by the
\* Pine exit (0: no Pine sell) and whether trailing PM and DCA were evaluated
PineHeld(cfg, pine_sig, quantity) ==
    IF cfg.pine_signal_use_exit /\ pine_sig # NoSignal
       /\ pine_sig.action \in {"sell", "stop"} /\ quantity > 0
    THEN [sold |-> quantity, evaluated |-> FALSE]
    ELSE [sold |-> 0, evaluated |-> TRUE]

\* the new-entry loop for one asset that is not held: TRUE when the buy is placed
\* (neural_ok: what the rest of the gate says)
PineEntry(cfg, pine_sig, neural_ok) ==
    /\ ~PineBlocksEntry(IF cfg.pine_signal_enabled THEN cfg.pine_signal_mode ELSE "off",
                        pine_sig.action)
    /\ neural_ok

EvalPine ==
    /\ pine_eval = NotRun
    /\ \E cfg \in PineSettings, stored \in PineSignals, quantity \in {0, 2},
          neural_ok \in BOOLEAN :
        LET pine_sig == GetPineSignal(cfg, stored)
        IN  pine_eval' = [done |-> TRUE, cfg |-> cfg, stored |-> stored,
                          quantity |-> quantity, neural_ok |-> neural_ok,
                          held |-> PineHeld(cfg, pine_sig, quantity),
                          entry |-> PineEntry(cfg, pine_sig, neural_ok)]
    /\ UNCHANGED <<traderVars, gate, window, order, paper, bpaper, disk, basis, norm, sig, port, request, repair, dca_init, trigger, feed, pnl, paper_test, seed_run, funds>>

SpecPine == InitGate /\ [][EvalPine]_vars

\* C35 as stated: with the Pine exit enabled, a held asset whose latest signal is
\* sell or stop and not older than max_age is sold in full without trailing-PM
\* and DCA evaluation; a signal older than max_age causes no sell and leaves the
\* entry decision as it is without any signal.
C35_PineOverride ==
    pine_eval.done =>
        LET cfg == pine_eval.cfg
            on == cfg.pine_signal_enabled /\ cfg.pine_signal_mode # "off"
            old == /\ pine_eval.stored # NoSignal
                   /\ pine_eval.stored.age > cfg.pine_signal_max_age
        IN  /\ (/\ on /\ cfg.pine_signal_use_exit /\ ~old /\ pine_eval.quantity > 0
                /\ pine_eval.stored.action \in {"sell", "stop"})
               => (pine_eval.held.sold = pine_eval.quantity /\ ~pine_eval.held.evaluated)
            /\ old => /\ pine_eval.held.sold = 0 /\ pine_eval.held.evaluated
                      /\ pine_eval.entry = PineEntry(cfg, NoSignal, pine_eval.neural_ok)

\* C35 with the age limit as the code applies it: a positive max_age expires the
\* signals older than it; max_age = 0 switches the limit off, and then a sell or
\* stop signal of any age sells.
C35_PineOverrideLimited ==
    pine_eval.done =>
        LET cfg == pine_eval.cfg
            on == cfg.pine_signal_enabled /\ cfg.pine_signal_mode # "off"
            old == /\ pine_eval.stored # NoSignal /\ cfg.pine_signal_max_age > 0
                   /\ pine_eval.stored.age > cfg.pine_signal_max_age
            exit_due == /\ on /\ cfg.pine_signal_use_exit /\ ~old /\ pine_eval.quantity > 0
                        /\ pine_eval.stored.action \in {"sell", "stop"}
        IN  /\ exit_due => (pine_eval.held.sold = pine_eval.quantity
                            /\ ~pine_eval.held.evaluated)
            /\ ~exit_due => (pine_eval.held.sold = 0 /\ pine_eval.held.evaluated)
            /\ old => pine_eval.entry = PineEntry(cfg, NoSignal, pine_eval.neural_ok)

\* a stop signal one second past the limit of 300: no sell, and the filter lets
\* the entry through as it would without a signal
C35_Witness ==
    /\ pine_eval.done
    /\ pine_eval.cfg.pine_signal_enabled /\ pine_eval.cfg.pine_signal_use_exit
    /\ pine_eval.cfg.pine_signal_mode = "filter" /\ pine_eval.cfg.pine_signal_max_age = 300
    /\ pine_eval.stored = [action |-> "stop", age |-> 301]
    /\ pine_eval.quantity = 2 /\ pine_eval.held.sold = 0
    /\ pine_eval.neural_ok /\ pine_eval.entry

\* ------------------------------------------------ the paper-test harness
\* _paper_test_tick() for the target asset, with a usable price and buying power
\* for both allocations. The entry buys EntryLots, the DCA half of that. The
\* holding the tick works with was fetched before the tick placed any order.
EntryLots == 2
PaperTestTick(state, now_ts, accepted) ==
    LET holding == state.total_quantity
        base == [state EXCEPT !.clock = now_ts, !.calls = @ + 1]
    IN  IF holding <= 0
        THEN IF state.stage # "buying" /\ accepted.entry
             THEN [base EXCEPT !.stage = "holding", !.buy_ts = now_ts, !.dca_done = FALSE,
                               !.total_quantity = holding + EntryLots,
                               !.log = Append(@, "PAPER_TEST_ENTRY")]
             ELSE base
        ELSE LET buy_ts == IF state.buy_ts # None THEN state.buy_ts ELSE now_ts
                 held_for == now_ts - buy_ts
                 dca == (~state.dca_done) /\ held_for >= state.dca_seconds /\ accepted.dca
                 exit == held_for >= state.hold_seconds /\ accepted.exit
                 after_dca == IF dca THEN holding + EntryLots \div 2 ELSE holding
                 log_dca == IF dca THEN Append(state.log, "PAPER_TEST_DCA") ELSE state.log
             IN  IF exit
                 THEN [base EXCEPT !.stage = "idle", !.buy_ts = None, !.dca_done = FALSE,
                                   !.total_quantity = after_dca - holding,
                                   !.log = Append(log_dca, "PAPER_TEST_EXIT")]
                 ELSE [base EXCEPT !.dca_done = state.dca_done \/ dca,
                                   !.total_quantity = after_dca, !.log = log_dca]

HarnessTick ==
    /\ paper_test.calls < MaxHarnessTicks
    /\ \E dca_seconds \in {0, 1, 2, 3}, hold_seconds \in {1, 2, 3}, dt \in {1, 2},
          accepted \in [entry : BOOLEAN, dca : BOOLEAN, exit : BOOLEAN] :
        /\ paper_test.calls > 0 =>
               /\ dca_seconds = paper_test.dca_seconds
               /\ hold_seconds = paper_test.hold_seconds
        /\ paper_test' = PaperTestTick([paper_test EXCEPT !.dca_seconds = dca_seconds,
                                                          !.hold_seconds = hold_seconds],
                                       paper_test.clock + dt, accepted)
    /\ UNCHANGED <<traderVars, gate, window, order, paper, bpaper, disk, basis, norm, sig, port, request, repair, dca_init, trigger, feed, pnl, pine_eval, seed_run, funds>>

SpecHarness == InitGate /\ [][HarnessTick]_vars

\* C36: for every dca_seconds and hold_seconds a cycle of the harness is one
\* entry buy, then at most one half-size DCA buy, then a sell of the full
\* position, after which the harness is idle with no remaining position.
C36_HarnessCycle ==
    /\ paper_test.stage = "idle" => paper_test.total_quantity = 0
    /\ \A i \in 1..Len(paper_test.log) :
        /\ paper_test.log[i] = "PAPER_TEST_ENTRY" =>
               (i = 1 \/ paper_test.log[i - 1] = "PAPER_TEST_EXIT")
        /\ paper_test.log[i] = "PAPER_TEST_DCA" =>
               paper_test.log[i - 1] = "PAPER_TEST_ENTRY"
        /\ paper_test.log[i] = "PAPER_TEST_EXIT" =>
               paper_test.log[i - 1] \in {"PAPER_TEST_ENTRY", "PAPER_TEST_DCA"}

\* ------------------------------------------------ C37
\* C37: on a tick in which the price lookup left an asset without a usable bid
\* or ask (missing, or not positive), no trailing-PM sell and no DCA buy is
\* placed for that asset.
C37_UsablePricesOnly ==
    \A i \in 1..Len(tick_log) :
        LET e == tick_log[i]
        IN  ((e.kind = "tpm" /\ e.sell) \/ (e.kind = "dca" /\ e.placed))
                => Usable(prices[e.asset])

SeedDcaWindowFromHistory(history, now_ts) ==
    LET sells == SelectSeq(history, LAMBDA e : e.side = "sell")
        last_sell == IF sells = <<>> THEN 0 ELSE sells[Len(sells)].ts
        dca_buys == SelectSeq(history, LAMBDA e : e.side = "buy" /\ e.tag = "DCA")
        ts_list == [i \in 1..Len(dca_buys) |-> dca_buys[i].ts]
    IN  [dca_buy_ts |-> SelectSeq(ts_list, LAMBDA t : t > last_sell
                                                      /\ t >= now_ts - dca_window_seconds),
         dca_last_sell_ts |-> last_sell]

\* the clock moves between the steps of the trader
SeedTimeSteps == {30000, 60000}
SeedStep(dt) == [seed_run EXCEPT !.clock = @ + dt, !.calls = @ + 1]

\* the new-entry loop buys: the buy is recorded without a tag, and
\* _reset_dca_window_for_trade(sold=False) empties the in-memory list
SeedEntry ==
    /\ seed_run.calls < MaxSeedSteps /\ ~seed_run.held
    /\ \E dt \in SeedTimeSteps :
        LET t == Start + seed_run.clock + dt
        IN  seed_run' = [SeedStep(dt) EXCEPT !.held = TRUE, !.dca_buy_ts = <<>>,
                             !.history = Append(@, [ts |-> t, side |-> "buy", tag |-> ""])]
    /\ UNCHANGED <<traderVars, gate, window, order, paper, bpaper, disk, basis, norm, sig, port, request, repair, dca_init, trigger, feed, pnl, pine_eval, paper_test, funds>>

\* a DCA buy: when the order goes through, place_buy_order records it with tag
\* DCA and _note_dca_buy appends the time to the in-memory list and prunes it
SeedDcaBuy ==
    /\ seed_run.calls < MaxSeedSteps /\ seed_run.held
    /\ \E dt \in SeedTimeSteps, filled \in BOOLEAN :
        LET t == Start + seed_run.clock + dt
        IN  seed_run' = IF filled
                        THEN [SeedStep(dt) EXCEPT
                                 !.dca_buy_ts = DcaKept(Append(@, t), seed_run.dca_last_sell_ts, t),
                                 !.history = Append(@, [ts |-> t, side |-> "buy", tag |-> "DCA"])]
                        ELSE SeedStep(dt)
    /\ UNCHANGED <<traderVars, gate, window, order, paper, bpaper, disk, basis, norm, sig, port, request, repair, dca_init, trigger, feed, pnl, pine_eval, paper_test, funds>>

\* an exit (Pine or trailing): place_sell_order records the sell when the order
\* went through; the caller runs _reset_dca_window_for_trade(sold=True) whatever
\* the order returned
SeedExit ==
    /\ seed_run.calls < MaxSeedSteps /\ seed_run.held
    /\ \E dt \in SeedTimeSteps, filled \in BOOLEAN :
        LET t == Start + seed_run.clock + dt
            reset == [SeedStep(dt) EXCEPT !.dca_buy_ts = <<>>, !.dca_last_sell_ts = t]
        IN  seed_run' = IF filled
                        THEN [reset EXCEPT !.held = FALSE,
                                 !.history = Append(@, [ts |-> t, side |-> "sell",
                                                        tag |-> "TRAIL_SELL"])]
                        ELSE reset
    /\ UNCHANGED <<traderVars, gate, window, order, paper, bpaper, disk, basis, norm, sig, port, request, repair, dca_init, trigger, feed, pnl, pine_eval, paper_test, funds>>

SpecSeed == InitGate /\ [][SeedEntry \/ SeedDcaBuy \/ SeedExit]_vars

\* C39: a restart at any moment seeds, from trade_history.jsonl, a DCA window
\* with the same _dca_window_count as the in-memory state of the process that
\* wrote the history has at that moment: same timestamps kept, same last sell.
C39_SeedMatchesMemory ==
    LET now_ts == Start + seed_run.clock
        seeded == SeedDcaWindowFromHistory(seed_run.history, now_ts)
    IN  /\ DcaWindowCount(seeded.dca_buy_ts, seeded.dca_last_sell_ts, now_ts)
               = DcaWindowCount(seed_run.dca_buy_ts, seed_run.dca_last_sell_ts, now_ts)
        /\ DcaKept(seeded.dca_buy_ts, seeded.dca_last_sell_ts, now_ts)
               = DcaKept(seed_run.dca_buy_ts, seed_run.dca_last_sell_ts, now_ts)
        /\ seeded.dca_last_sell_ts = seed_run.dca_last_sell_ts

\* ------------------------------------------------ buying power and the DCA buys
\* manage_trades reads buying_power once (the account, or the last good snapshot
\* when the tick is incomplete) and then walks the held assets
FundsTickBegin ==
    /\ funds.pc = "idle"
    /\ \E account_buying_power \in {3000, 5000, 20000} :
        funds' = [pc |-> "held", buying_power |-> account_buying_power, idx |-> 1,
                  placed |-> <<>>]
    /\ UNCHANGED <<traderVars, gate, window, order, paper, bpaper, disk, basis, norm, sig, port, request, repair, dca_init, trigger, feed, pnl, pine_eval, paper_test, seed_run>>

\* the DCA section for one held asset whose trigger fired: dca_amount = value * 2
\* with value = quantity * current_sell_price; the order is placed when the
\* 24 h limit is not reached and dca_amount <= buying_power. The local
\* buying_power is the one read at the start of the tick.
FundsDca ==
    /\ funds.pc = "held" /\ funds.idx <= MaxHeld
    /\ \E value \in {500, 1000, 2000}, limit_reached \in BOOLEAN :
        LET dca_amount == value * 2
        IN  funds' = IF ~limit_reached /\ dca_amount <= funds.buying_power
                     THEN [funds EXCEPT !.idx = @ + 1, !.placed = Append(@, dca_amount)]
                     ELSE [funds EXCEPT !.idx = @ + 1]
    /\ UNCHANGED <<traderVars, gate, window, order, paper, bpaper, disk, basis, norm, sig, port, request, repair, dca_init, trigger, feed, pnl, pine_eval, paper_test, seed_run>>

SpecFunds == InitGate /\ [][FundsTickBegin \/ FundsDca]_vars

\* C40: within one tick the quote amounts of the DCA buys placed across the held
\* assets add up to no more than the buying power the tick got from the account
\* snapshot (here every held asset's DCA trigger fired).
C40_DcaSumWithinBuyingPower ==
    funds.pc = "held" => SumSeq(funds.placed) <= funds.buying_power

====
